---- MODULE Spec2Model ----
(***************************************************************************)
(* Model of the CloudFormation static analyser: the IR extractor           *)
(* (cloudformation_parser.py), the dependency graph builder                *)
(* (analysis/dependency_graph.py) and the graph analyser                   *)
(* (analysis/dependency_graph_analysis.py).                                *)
(*                                                                         *)
(* A document tree is a record: Str(s) a string, List(items) a list,       *)
(* Dict(items) a mapping kept as its insertion-ordered sequence of         *)
(* <<key, value>> pairs, Other a scalar that is none of them.  uuid4 ids   *)
(* are modelled as strings that are unique per entity.  The "NA" sentinel  *)
(* of the IR is NA.                                                        *)
(***************************************************************************)
EXTENDS Integers, Sequences, FiniteSets, TLC

VARIABLES
    template,               \* the loaded document (input of the parser)
    pc,                     \* position in parse / build_graph / analyze
    idx,                    \* loop index of the section being extracted
    para_name_to_id,        \* CloudFormationParser.para_name_to_id
    condition_name_to_id,   \* CloudFormationParser.condition_name_to_id
    resource_name_to_id,    \* CloudFormationParser.resource_name_to_id
    ir,                     \* the IR: parameters, conditions, resources, outputs
    nodes,                  \* DependencyGraph.nodes
    edges,                  \* DependencyGraph.edges
    node_id_to_name,        \* DependencyGraph.node_id_to_name
    analysis_results,       \* DependencyGraphAnalysis.analysis_results
    visited,                \* visited set of the running walk
    stack,                  \* frames of the running recursion
    todo,                   \* calls the enclosing loops still have to make
    found                   \* findings collected by the running analysis

vars == <<template, pc, idx, para_name_to_id, condition_name_to_id,
          resource_name_to_id, ir, nodes, edges, node_id_to_name,
          analysis_results, visited, stack, todo, found>>

-----------------------------------------------------------------------------
(* Configuration: config/config.py *)

CFN_CONDITION_PREFIX == "Cond."
CFN_OUTPUT_PREFIX == "Out."
AWS_PSEUDO_PARAMETERS ==
    {"AWS::StackName", "AWS::Region", "AWS::AccountId", "AWS::NoValue",
     "AWS::Partition", "AWS::URLSuffix", "AWS::StackId", "AWS::NotificationARNs"}
EDGE_CONDITION_EXISTENCE == "condition-existence"
EDGE_CONDITION_PROPERTY == "condition-property"

NA == <<"NA">>
\* marker carried through a reference list when the extractor raises
RAISE == "<raise>"

\* depth at which a recursion of the analyser raises RecursionError
RecursionLimit == 12

-----------------------------------------------------------------------------
(* Document trees *)

Str(s) == [k |-> "str", s |-> s]
List(items) == [k |-> "list", items |-> items]
Dict(items) == [k |-> "dict", items |-> items]
Other == [k |-> "other"]
Fn(key, value) == Dict(<< <<key, value>> >>)
Absent == [k |-> "absent"]

RECURSIVE Concat(_)
Concat(ss) == IF ss = <<>> THEN <<>> ELSE Head(ss) \o Concat(Tail(ss))

Range(s) == {s[i] : i \in 1..Len(s)}

SeqContains(s, x) == \E i \in 1..Len(s) : s[i] = x

\* list.remove(x): drops the first occurrence only
RECURSIVE RemoveFirst(_, _)
RemoveFirst(s, x) ==
    IF s = <<>> THEN <<>>
    ELSE IF Head(s) = x THEN Tail(s)
    ELSE <<Head(s)>> \o RemoveFirst(Tail(s), x)

\* the distinct elements of s, in order of first occurrence
RECURSIVE Distinct(_)
Distinct(s) ==
    IF s = <<>> THEN <<>>
    ELSE LET r == Distinct(SubSeq(s, 1, Len(s) - 1))
         IN IF SeqContains(r, s[Len(s)]) THEN r ELSE Append(r, s[Len(s)])

\* every order in which Python may iterate set(s)
SetOrders(s) ==
    LET S == Range(s)
    IN {o \in [1..Cardinality(S) -> S] : Range(o) = S}

\* dict.get(key, Absent) on an insertion-ordered mapping
DictGet(d, key) ==
    IF \E i \in 1..Len(d.items) : d.items[i][1] = key
    THEN d.items[CHOOSE i \in 1..Len(d.items) : d.items[i][1] = key][2]
    ELSE Absent

MapGet(m, key) == IF key \in DOMAIN m THEN m[key] ELSE ""

MapPut(m, key, val) == [x \in DOMAIN m \cup {key} |-> IF x = key THEN val ELSE m[x]]

EmptyMap == [x \in {} |-> ""]

-----------------------------------------------------------------------------
(* Regular expressions of config.py, tabulated over the strings of the     *)
(* model's documents.                                                      *)

\* re.findall(AWS_PSEUDO_PARAMETERS_PATTERN, s)
PseudoMatches(s) ==
    CASE s = "AWS::Region" -> <<"AWS::Region">>
      [] s = "${AWS::Region}-${Env}" -> <<"AWS::Region">>
      [] s = "AWS::S3::Bucket" -> <<"AWS::S3">>
      [] OTHER -> <<>>

\* re.findall(SUBSTITUTION_PATTERN, s)
SubMatches(s) ==
    CASE s = "${AWS::Region}-${Env}" -> <<"AWS::Region", "Env">>
      [] s = "${A.Arn}" -> <<"A.Arn">>
      [] s = "${id}-${id}" -> <<"id", "id">>
      [] s = "${id}" -> <<"id">>
      [] s = "${Env}" -> <<"Env">>
      [] OTHER -> <<>>

\* s.split(".")[0]
DotHead(s) ==
    CASE s = "A.Arn" -> "A"
      [] s = "B.Arn" -> "B"
      [] OTHER -> s

\* name.replace("::", ".")
ReplaceColons(s) ==
    CASE s = "AWS::Region" -> "AWS.Region"
      [] s = "AWS::StackName" -> "AWS.StackName"
      [] OTHER -> s

-----------------------------------------------------------------------------
(* 4.1 Reference extractor: CloudFormationParser._extract_refs_from_dict   *)
(* The result is the list of names in the order the code appends them; it  *)
(* holds RAISE when the walk raises (IndexError, AttributeError, ...).     *)

IsKey(key, name) == key = name \/ key = "Fn::" \o name

\* the matches of a Sub string that are emitted: truncated at the first '.'
SubEmit(matches) == [i \in 1..Len(matches) |-> DotHead(matches[i])]

RECURSIVE extract_refs_recursive(_), extract_refs_item(_, _),
          extract_refs_sub_bindings(_, _)

\* lines 433-441: the loop over the bindings of Sub, then the emission of
\* the matches that are left
extract_refs_sub_bindings(bindings, matches) ==
    IF bindings = <<>> THEN SubEmit(matches)
    ELSE LET key == Head(bindings)[1]
             value == Head(bindings)[2]
         IN IF SeqContains(matches, key)
            THEN extract_refs_recursive(value)
                 \o extract_refs_sub_bindings(Tail(bindings), RemoveFirst(matches, key))
            ELSE extract_refs_sub_bindings(Tail(bindings), matches)

\* lines 415-465: one (key, value) item of a mapping
extract_refs_item(key, value) ==
    IF IsKey(key, "Ref") THEN
        IF value.k = "str" THEN <<value.s>> ELSE <<RAISE>>
    ELSE IF IsKey(key, "GetAtt") THEN
        IF value.k = "list" /\ Len(value.items) > 0 THEN
            IF value.items[1].k = "str" THEN <<value.items[1].s>> ELSE <<RAISE>>
        ELSE IF value.k = "str" THEN <<DotHead(value.s)>>
        ELSE <<>>
    ELSE IF IsKey(key, "FindInMap") THEN
        IF value.k = "list" THEN
            IF Len(value.items) > 0
            THEN (IF value.items[1].k = "str" THEN <<value.items[1].s>> ELSE <<RAISE>>)
                 \o Concat([i \in 1..(Len(value.items) - 1) |->
                               extract_refs_recursive(value.items[i + 1])])
            ELSE <<>>
        ELSE IF value.k = "str" THEN <<>>   \* value[1:] walks single characters
        ELSE <<RAISE>>                      \* value[1:] on a mapping or scalar
    ELSE IF IsKey(key, "Sub") THEN
        IF value.k = "list" /\ Len(value.items) > 0 THEN
            IF value.items[1].k # "str" THEN <<RAISE>>
            ELSE IF Len(value.items) < 2 THEN <<RAISE>>
            ELSE IF value.items[2].k # "dict" THEN <<RAISE>>
            ELSE extract_refs_sub_bindings(value.items[2].items,
                                           SubMatches(value.items[1].s))
        ELSE IF value.k = "str" THEN SubEmit(SubMatches(value.s))
        ELSE <<>>
    ELSE IF IsKey(key, "Join") THEN
        IF value.k = "list" /\ Len(value.items) > 1 THEN
            LET join_items == value.items[2]
            IN IF join_items.k = "list" THEN
                   Concat([i \in 1..Len(join_items.items) |->
                              IF join_items.items[i].k = "dict"
                              THEN extract_refs_recursive(join_items.items[i])
                              ELSE <<>>])
               ELSE IF join_items.k = "dict" THEN extract_refs_recursive(join_items)
               ELSE <<>>
        ELSE <<>>
    ELSE IF value.k \in {"dict", "list", "str"} THEN extract_refs_recursive(value)
    ELSE <<>>

\* lines 412-473
extract_refs_recursive(obj) ==
    IF obj.k = "dict" THEN
        Concat([i \in 1..Len(obj.items) |->
                   extract_refs_item(obj.items[i][1], obj.items[i][2])])
    ELSE IF obj.k = "list" THEN
        Concat([i \in 1..Len(obj.items) |-> extract_refs_recursive(obj.items[i])])
    ELSE IF obj.k = "str" THEN PseudoMatches(obj.s)
    ELSE <<>>

_extract_refs_from_dict(data) == extract_refs_recursive(data)

Raises(refs) == SeqContains(refs, RAISE)

\* CloudFormationParser._extract_condition_refs_from_dict: the names under a
\* Condition key, prefixed
RECURSIVE extract_condition_refs_recursive(_)
extract_condition_refs_recursive(obj) ==
    IF obj.k = "dict" THEN
        Concat([i \in 1..Len(obj.items) |->
            LET key == obj.items[i][1]
                value == obj.items[i][2]
            IN IF key = "Condition"
               THEN IF value.k = "str" THEN <<CFN_CONDITION_PREFIX \o value.s>>
                    ELSE <<"Cond.<repr>">>   \* the f-string of a non-string value
               ELSE IF value.k \in {"dict", "list"}
                    THEN extract_condition_refs_recursive(value)
                    ELSE <<>>])
    ELSE IF obj.k = "list" THEN
        Concat([i \in 1..Len(obj.items) |-> extract_condition_refs_recursive(obj.items[i])])
    ELSE <<>>

_extract_condition_refs_from_dict(data) == extract_condition_refs_recursive(data)

\* _extract_condition_refs_from_property as it would be if line 604 missed
\* the key If
_extract_condition_refs_from_property_NoIf(prop_value) == <<>>

\* CloudFormationParser._extract_condition_refs_from_property: the first
\* element of every If list, prefixed
RECURSIVE extract_conditions_recursive(_)
extract_conditions_recursive(obj) ==
    IF obj.k = "dict" THEN
        Concat([i \in 1..Len(obj.items) |->
            LET key == obj.items[i][1]
                value == obj.items[i][2]
            IN IF key = "If" THEN
                   IF value.k = "list" /\ Len(value.items) > 0 THEN
                       (IF value.items[1].k = "str"
                        THEN <<CFN_CONDITION_PREFIX \o value.items[1].s>> ELSE <<>>)
                       \o (IF Len(value.items) < 3 THEN <<RAISE>>   \* value[1], value[2]
                           ELSE extract_conditions_recursive(value.items[2])
                                \o extract_conditions_recursive(value.items[3]))
                   ELSE <<>>
               ELSE IF value.k \in {"dict", "list"}
                    THEN extract_conditions_recursive(value)
                    ELSE <<>>])
    ELSE IF obj.k = "list" THEN
        Concat([i \in 1..Len(obj.items) |-> extract_conditions_recursive(obj.items[i])])
    ELSE <<>>

_extract_condition_refs_from_property(prop_value) == extract_conditions_recursive(prop_value)

\* the split without the test that sets resource names apart: a resource's id
\* lands among the parameter references
ParameterRefsOf_ResourcesToo(references, res_map, para_map) ==
    Concat([i \in 1..Len(references) |->
               IF references[i] \in DOMAIN para_map THEN <<para_map[references[i]]>>
               ELSE IF references[i] \in DOMAIN res_map THEN <<res_map[references[i]]>>
               ELSE <<>>])

\* CloudFormationParser._extract_parameter_and_resource_refs
RECURSIVE ResourceRefsOf(_, _), ParameterRefsOf(_, _, _)
ResourceRefsOf(references, res_map) ==
    IF references = <<>> THEN <<>>
    ELSE (IF Head(references) \in DOMAIN res_map
          THEN <<res_map[Head(references)]>> ELSE <<>>)
         \o ResourceRefsOf(Tail(references), res_map)

ParameterRefsOf(references, res_map, para_map) ==
    IF references = <<>> THEN <<>>
    ELSE (IF Head(references) \notin DOMAIN res_map /\ Head(references) \in DOMAIN para_map
          THEN <<para_map[Head(references)]>> ELSE <<>>)
         \o ParameterRefsOf(Tail(references), res_map, para_map)

\* CloudFormationParser.find_references(data): data is a mapping; the pair
\* <<references of every value, in order>> before the split into ids
find_references_names(data) ==
    Concat([i \in 1..Len(data.items) |->
        LET data_value == data.items[i][2]
        IN IF data_value.k \in {"dict", "list"} THEN _extract_refs_from_dict(data_value)
           ELSE IF data_value.k = "str" THEN PseudoMatches(data_value.s)
           ELSE <<>>])

\* [cond in map for cond in names] translated to ids: undeclared names dropped
CondIdsOf(names, cond_map) ==
    LET kept == SelectSeq(names, LAMBDA c : c \in DOMAIN cond_map)
    IN [i \in 1..Len(kept) |-> cond_map[kept[i]]]

\* "x if x else NA"
OrNA(list) == IF list = <<>> THEN NA ELSE list

-----------------------------------------------------------------------------
(* 4.2 IR builder: CloudFormationParser.parse_template, section by section *)

IdOf(kind, name) == "id:" \o kind \o ":" \o name

NAStr == Str("NA")

\* dict.get(key, default)
GetOr(d, key, default) == IF DictGet(d, key) = Absent THEN default ELSE DictGet(d, key)

Names(section) == [i \in 1..Len(section.items) |-> section.items[i][1]]

\* every string of str(tree), keys included, in textual order
RECURSIVE StringsOf(_)
StringsOf(tree) ==
    IF tree.k = "str" THEN <<tree.s>>
    ELSE IF tree.k = "list" THEN
        Concat([i \in 1..Len(tree.items) |-> StringsOf(tree.items[i])])
    ELSE IF tree.k = "dict" THEN
        Concat([i \in 1..Len(tree.items) |->
                   <<tree.items[i][1]>> \o StringsOf(tree.items[i][2])])
    ELSE <<>>

\* get_pseudo_parameters_search_scope: Parameters, Conditions, the Properties
\* of every resource, Outputs, Rules
get_pseudo_parameters_search_scope(t) ==
    StringsOf(t.Parameters) \o StringsOf(t.Conditions)
    \o Concat([i \in 1..Len(t.Resources.items) |->
                  LET resource_data == t.Resources.items[i][2]
                  IN IF resource_data.k = "dict" /\ DictGet(resource_data, "Properties") # Absent
                     THEN StringsOf(DictGet(resource_data, "Properties")) ELSE <<>>])
    \o StringsOf(t.Outputs) \o StringsOf(t.Rules)

\* extract_pseudo_parameters: the distinct known pseudo-parameters, in order
\* of first match
extract_pseudo_parameters(t) ==
    LET scope == get_pseudo_parameters_search_scope(t)
        matches == Concat([i \in 1..Len(scope) |-> PseudoMatches(scope[i])])
    IN Distinct(SelectSeq(matches, LAMBDA m : m \in AWS_PSEUDO_PARAMETERS))

ParamRecord(kind, name, type) == [id |-> IdOf(kind, name), name |-> name, type |-> type]

\* extract_parameters: declared parameters, pseudo-parameters, mappings
extract_parameters(t) ==
    LET declared == Names(t.Parameters)
        pseudo == extract_pseudo_parameters(t)
        mappings == Names(t.Mappings)
    IN [i \in 1..Len(declared) |->
           ParamRecord("param", declared[i],
                       GetOr(t.Parameters.items[i][2], "Type", Str("String")).s)]
       \o [i \in 1..Len(pseudo) |-> ParamRecord("pseudo", pseudo[i], "pseudo-parameter")]
       \o [i \in 1..Len(mappings) |-> ParamRecord("mapping", mappings[i], "mapping")]

\* the name -> id map after a sequence of registrations (later ones overwrite)
RECURSIVE RegisterAll(_, _)
RegisterAll(m, records) ==
    IF records = <<>> THEN m
    ELSE RegisterAll(MapPut(m, Head(records).name, Head(records).id), Tail(records))

\* extract_rules_helper, lines 307-321: the names referenced by the Assert
\* expressions of a rule, and by its RuleCondition
RuledNames(rule_data) ==
    LET assertions == GetOr(rule_data, "Assertions", List(<<>>))
    IN Concat([i \in 1..Len(assertions.items) |->
                  LET assert_value == GetOr(assertions.items[i], "Assert", NAStr)
                  IN IF assert_value.k = "dict"
                     THEN _extract_refs_from_dict(assert_value) ELSE <<>>])

RuleDependNames(rule_data) ==
    LET rule_condition == GetOr(rule_data, "RuleCondition", Other)
    IN IF rule_condition.k = "dict" THEN _extract_refs_from_dict(rule_condition) ELSE <<>>

\* [self.para_name_to_id[para] for para in set(names)] raises KeyError
KeyErrorIn(names, map) == \E i \in 1..Len(names) : names[i] \notin DOMAIN map

\* the lists [map[n] for n in set(names)] may come out as, or NA
IdListsOf(names, map) ==
    IF names = <<>> THEN {NA}
    ELSE {[i \in 1..Len(o) |-> map[o[i]]] : o \in SetOrders(names)}

ConditionRecord(id, name, ruled_para, depend_para, depend_cond) ==
    [id |-> id, name |-> name, ruled_para |-> ruled_para,
     depend_para |-> depend_para, depend_cond |-> depend_cond]

\* extract_conditions_helper, lines 350-359, for one condition
CondDependNames(condition_data) ==
    IF condition_data.k = "dict" THEN _extract_refs_from_dict(condition_data) ELSE <<>>

CondDependCond(condition_data, cond_map) ==
    LET depend_cond == IF condition_data.k = "dict"
                       THEN _extract_condition_refs_from_dict(condition_data) ELSE <<>>
    IN IF depend_cond = <<>> THEN NA ELSE CondIdsOf(depend_cond, cond_map)

\* type.startswith("Rain::")
StartsWithRain(type) == type \in {"Rain::Module", "Rain::Embed"}

\* filter_non_cfn_resources
filter_non_cfn_resources(t) ==
    SelectSeq(t.Resources.items,
              LAMBDA item :
                  /\ item[2].k # "list"
                  /\ DictGet(item[2], "Type") # Absent
                  /\ DictGet(item[2], "Type") # NAStr
                  /\ ~StartsWithRain(DictGet(item[2], "Type").s))

ARGUMENT_MAPPINGS(key) ==
    CASE key = "Condition" -> "condition"
      [] key = "DependsOn" -> "depends_on"
      [] key = "CreationPolicy" -> "creation_policy"
      [] key = "UpdatePolicy" -> "update_policy"
      [] key = "DeletionPolicy" -> "deletion_policy"
      [] key = "UpdateReplacePolicy" -> "update_replace_policy"
      [] OTHER -> ""

\* extract_resource_arguments: the mapped meta-attributes, or "NA"
extract_resource_arguments(resource_data) ==
    LET kept == SelectSeq(resource_data.items, LAMBDA item : ARGUMENT_MAPPINGS(item[1]) # "")
        arguments == [i \in 1..Len(kept) |->
            <<ARGUMENT_MAPPINGS(kept[i][1]),
              IF kept[i][1] = "Condition"
              THEN Str(CFN_CONDITION_PREFIX \o (IF kept[i][2].k = "str" THEN kept[i][2].s ELSE "<repr>"))
              ELSE kept[i][2]>>]
    IN IF arguments = <<>> THEN NAStr ELSE Dict(arguments)

\* extract_resource_properties: one PropertyUnit per property; na stands for
\* the "NA" returned when there are no properties
extract_resource_properties(properties_data, res_map, para_map, cond_map) ==
    IF properties_data.k # "dict" \/ properties_data.items = <<>>
    THEN [na |-> TRUE, units |-> <<>>, raised |-> FALSE]
    ELSE LET unit(i) ==
                 LET prop_name == properties_data.items[i][1]
                     prop_value == properties_data.items[i][2]
                     references == find_references_names(Dict(<< <<prop_name, prop_value>> >>))
                     resource_refs == ResourceRefsOf(references, res_map)
                     parameter_refs == ParameterRefsOf(references, res_map, para_map)
                     conds == _extract_condition_refs_from_property(prop_value)
                 IN [name |-> prop_name,
                     resource_refs |-> OrNA(resource_refs),
                     parameter_refs |-> OrNA(parameter_refs),
                     depend_conditions |->
                         IF conds = <<>> THEN NA ELSE CondIdsOf(conds, cond_map),
                     raised |-> Raises(references) \/ Raises(conds)]
             units == [i \in 1..Len(properties_data.items) |-> unit(i)]
         IN [na |-> FALSE,
             units |-> [i \in 1..Len(units) |->
                           [name |-> units[i].name,
                            resource_refs |-> units[i].resource_refs,
                            parameter_refs |-> units[i].parameter_refs,
                            depend_conditions |-> units[i].depend_conditions]],
             raised |-> \E i \in 1..Len(units) : units[i].raised]

\* extract_resources: filter, pre-assign the ids, then one record per
\* surviving resource
ResourceIds(t) ==
    LET res == filter_non_cfn_resources(t)
    IN RegisterAll(EmptyMap, [i \in 1..Len(res) |->
                                 [name |-> res[i][1], id |-> IdOf("res", res[i][1])]])

\* lines 507-509 as they would be if an id were assigned only when the
\* resource is walked: the ids known while the i-th resource is walked
AssignedIds_UpTo(t, i) ==
    LET res == filter_non_cfn_resources(t)
    IN RegisterAll(EmptyMap, [j \in 1..i |-> [name |-> res[j][1], id |-> IdOf("res", res[j][1])]])

\* lines 507-509: the ids known while the i-th resource is walked are those
\* of all resources
AssignedIds(t, i) == ResourceIds(t)

extract_resources(t, para_map, cond_map) ==
    LET res == filter_non_cfn_resources(t)
        one(i) ==
            LET resource_data == res[i][2]
                res_map == AssignedIds(t, i)
                props == extract_resource_properties(
                             GetOr(resource_data, "Properties", Dict(<<>>)),
                             res_map, para_map, cond_map)
            IN [id |-> res_map[res[i][1]],
                name |-> res[i][1],
                type |-> DictGet(resource_data, "Type").s,
                properties |-> [na |-> props.na, units |-> props.units],
                arguments |-> extract_resource_arguments(resource_data),
                raised |-> props.raised]
    IN [i \in 1..Len(res) |-> one(i)]

\* outputs whose name starts with Fn::ForEach:: are skipped
StartsWithForEach(name) == name \in {"Fn::ForEach::Loop"}

\* _extract_export_name_helper
ExportNames(export) ==
    Concat([i \in 1..Len(export.items) |-> _extract_refs_from_dict(export.items[i][2])])

\* extract_outputs, for one output
extract_output(output_name, output_data, res_map, para_map, cond_map) ==
    LET output_pure_data == Dict(SelectSeq(output_data.items, LAMBDA item : item[1] # "Export"))
        references == find_references_names(output_pure_data)
        export == DictGet(output_data, "Export")
        export_refs == IF export = Absent THEN <<>> ELSE ExportNames(export)
        export_conds == IF export = Absent THEN <<>>
                        ELSE Concat([i \in 1..Len(export.items) |->
                                 _extract_condition_refs_from_property(export.items[i][2])])
        direct_condition == GetOr(output_data, "Condition", Str(""))
        cond_name == CFN_CONDITION_PREFIX \o direct_condition.s
        if_depend_conditions ==
            _extract_condition_refs_from_property(GetOr(output_data, "Value", NAStr))
    IN [id |-> IdOf("out", output_name),
        name |-> CFN_OUTPUT_PREFIX \o output_name,
        value |-> [depend_conditions |->
                      IF if_depend_conditions = <<>> THEN NA
                      ELSE CondIdsOf(if_depend_conditions, cond_map)],
        source_resource |-> OrNA(ResourceRefsOf(references, res_map)),
        source_parameter |-> OrNA(ParameterRefsOf(references, res_map, para_map)),
        export_name |->
            [na |-> export = Absent,
             depend_para |-> ParameterRefsOf(export_refs, res_map, para_map),
             depend_resource |-> OrNA(ResourceRefsOf(export_refs, res_map))],
        depend_conditions |->
            IF direct_condition.s = "" THEN NA
            ELSE IF cond_name \in DOMAIN cond_map THEN <<cond_map[cond_name]>> ELSE NA,
        raised |-> \/ Raises(references) \/ Raises(export_refs) \/ Raises(export_conds)
                   \/ Raises(if_depend_conditions)
                   \/ (direct_condition.s # "" /\ cond_name \notin DOMAIN cond_map)]

extract_outputs(t, res_map, para_map, cond_map) ==
    LET out == SelectSeq(t.Outputs.items, LAMBDA item : ~StartsWithForEach(item[1]))
    IN [i \in 1..Len(out) |-> extract_output(out[i][1], out[i][2], res_map, para_map, cond_map)]

\* the IR records proper: the marker of a raised exception is no field of them
DropRaised(records) ==
    [i \in 1..Len(records) |->
        [f \in (DOMAIN records[i]) \ {"raised"} |-> records[i][f]]]

AnyRaised(records) == \E i \in 1..Len(records) : records[i].raised

-----------------------------------------------------------------------------
(* 4.3 Dependency graph builder: analysis/dependency_graph.py *)

Node(id, name, type) == [id |-> id, name |-> name, type |-> type]

Edge(from_node, to_node, edge_type) ==
    [from |-> from_node, to |-> to_node, edge_type |-> edge_type]

\* _create_edge
_create_edge(es, from_node, to_node, edge_type) ==
    Append(es, Edge(from_node, to_node, edge_type))

\* lines 169-172: the first edge root -> name gets node_name as its source
RewriteFirstRootEdge(es, name, node_name) ==
    IF \E i \in 1..Len(es) : es[i].from = "root" /\ es[i].to = name
    THEN LET first == CHOOSE i \in 1..Len(es) :
                          /\ es[i].from = "root" /\ es[i].to = name
                          /\ \A j \in 1..(i - 1) : ~(es[j].from = "root" /\ es[j].to = name)
         IN [es EXCEPT ![first].from = node_name]
    ELSE es

\* _generate_edge: the edge list after the call and the value it returns.
\* acc.edges is the edge list so far, section a list of ids or NA.
RECURSIVE GenerateEdgeLoop(_, _, _, _, _, _)
GenerateEdgeLoop(acc, id2name, node_name, section, is_ruled_para, edge_type) ==
    IF section = <<>> THEN acc
    ELSE LET depended_node_id == Head(section)
             looked_up == MapGet(id2name, depended_node_id)
             depended_node_name == IF is_ruled_para THEN "root" ELSE looked_up
             es1 == IF is_ruled_para
                    THEN RewriteFirstRootEdge(acc.edges, depended_node_name, node_name)
                    ELSE acc.edges
             next == IF depended_node_name # ""
                     THEN [edges |-> _create_edge(es1, depended_node_name, node_name, edge_type),
                           generated |-> TRUE]
                     ELSE [edges |-> es1, generated |-> acc.generated]
         IN GenerateEdgeLoop(next, id2name, node_name, Tail(section), is_ruled_para, edge_type)

_generate_edge(es, id2name, node_name, section, is_ruled_para, edge_type) ==
    IF section = NA THEN [edges |-> es, generated |-> FALSE]
    ELSE GenerateEdgeLoop([edges |-> es, generated |-> FALSE], id2name, node_name,
                          section, is_ruled_para, edge_type)

\* the substitution applied to the id of a pseudo-parameter as well
RenamedParameters_IdsToo(parameters) ==
    [i \in 1..Len(parameters) |->
        [parameters[i] EXCEPT !.name = ReplaceColons(parameters[i].name),
                              !.id = IF parameters[i].type = "pseudo-parameter"
                                     THEN IdOf("pseudo", ReplaceColons(parameters[i].name))
                                     ELSE parameters[i].id]]

\* _create_nodes, lines 107-114: the parameters, their names with '::'
\* replaced, as the IR holds them afterwards
RenamedParameters(parameters) ==
    [i \in 1..Len(parameters) |->
        [parameters[i] EXCEPT !.name = ReplaceColons(parameters[i].name)]]

NodesOf(records, type) ==
    [i \in 1..Len(records) |-> Node(records[i].id, records[i].name, type)]

\* build_graph step 3 as it would be without line 33: no edge for ruled_para
ProcessCondition_NoRuledParaEdge(es, id2name, condition) ==
    LET r1 == _generate_edge(es, id2name, condition.name, condition.depend_para, FALSE, "")
        r2 == _generate_edge(r1.edges, id2name, condition.name, condition.depend_cond, FALSE, "")
    IN IF ~(r1.generated \/ r2.generated)
       THEN _create_edge(r2.edges, "root", condition.name, "")
       ELSE r2.edges

\* build_graph step 3, lines 32-39, for one condition
ProcessCondition(es, id2name, condition) ==
    LET r0 == _generate_edge(es, id2name, condition.name, condition.ruled_para, FALSE, "")
        r1 == _generate_edge(r0.edges, id2name, condition.name, condition.depend_para, FALSE, "")
        r2 == _generate_edge(r1.edges, id2name, condition.name, condition.depend_cond, FALSE, "")
    IN IF ~(r1.generated \/ r2.generated)
       THEN _create_edge(r2.edges, "root", condition.name, "")
       ELSE r2.edges

\* _handle_dependencies_in_arguments
RECURSIVE DependsOnEdges(_, _, _)
DependsOnEdges(es, depended_nodes, resource_name) ==
    IF depended_nodes = <<>> THEN es
    ELSE DependsOnEdges(_create_edge(es, Head(depended_nodes).s, resource_name, ""),
                        Tail(depended_nodes), resource_name)

_handle_dependencies_in_arguments(es, resource) ==
    LET arguments == resource.arguments
    IN IF arguments = NAStr THEN es
       ELSE LET depended_nodes == DictGet(arguments, "depends_on")
                es1 == IF depended_nodes = Absent \/ depended_nodes = NAStr THEN es
                       ELSE IF depended_nodes.k = "list"
                            THEN DependsOnEdges(es, depended_nodes.items, resource.name)
                            ELSE _create_edge(es, depended_nodes.s, resource.name, "")
                condition == DictGet(arguments, "condition")
            IN IF condition = Absent \/ condition = NAStr THEN es1
               ELSE _create_edge(es1, condition.s, resource.name, EDGE_CONDITION_EXISTENCE)

\* build_graph step 4, lines 47-53: the loop over the properties
RECURSIVE PropertyEdges(_, _, _, _)
PropertyEdges(acc, id2name, resource_name, properties) ==
    IF properties = <<>> THEN acc
    ELSE LET property == Head(properties)
             r1 == _generate_edge(acc.edges, id2name, resource_name,
                                  property.parameter_refs, FALSE, "")
             r2 == _generate_edge(r1.edges, id2name, resource_name,
                                  property.resource_refs, FALSE, "")
             r3 == _generate_edge(r2.edges, id2name, resource_name,
                                  property.depend_conditions, FALSE, EDGE_CONDITION_PROPERTY)
         IN PropertyEdges([edges |-> r3.edges,
                           generated |-> r1.generated \/ r2.generated \/ r3.generated
                                         \/ acc.generated],
                          id2name, resource_name, Tail(properties))

\* build_graph step 4 as it would be without lines 54-56
ProcessResource_NoRootEdge(es, id2name, resource) ==
    LET es1 == _handle_dependencies_in_arguments(es, resource)
    IN IF resource.properties.na THEN es1
       ELSE PropertyEdges([edges |-> es1, generated |-> FALSE], id2name,
                          resource.name, resource.properties.units).edges

\* build_graph step 4, lines 42-56, for one resource
ProcessResource(es, id2name, resource) ==
    LET es1 == _handle_dependencies_in_arguments(es, resource)
        r == IF resource.properties.na THEN [edges |-> es1, generated |-> FALSE]
             ELSE PropertyEdges([edges |-> es1, generated |-> FALSE], id2name,
                                resource.name, resource.properties.units)
    IN IF ~r.generated THEN _create_edge(r.edges, "root", resource.name, "") ELSE r.edges

\* build_graph step 5, lines 59-70, for one output
ProcessOutput(es, id2name, output) ==
    LET r1 == _generate_edge(es, id2name, output.name, output.source_resource, FALSE, "")
        r2 == _generate_edge(r1.edges, id2name, output.name, output.source_parameter, FALSE, "")
        es2 == IF ~(r1.generated \/ r2.generated)
               THEN _create_edge(r2.edges, "root", output.name, "") ELSE r2.edges
        r3 == _generate_edge(es2, id2name, output.name, output.depend_conditions,
                             FALSE, EDGE_CONDITION_EXISTENCE)
        r4 == _generate_edge(r3.edges, id2name, output.name, output.value.depend_conditions,
                             FALSE, EDGE_CONDITION_PROPERTY)
    IN IF output.export_name.na THEN r4.edges
       ELSE LET r5 == _generate_edge(r4.edges, id2name, output.name,
                                     output.export_name.depend_para, FALSE, "")
                r6 == _generate_edge(r5.edges, id2name, output.name,
                                     output.export_name.depend_resource, FALSE, "")
            IN r6.edges

\* build_graph steps 3, 4 and 5: the loops over the IR's conditions,
\* resources and outputs
RECURSIVE ConditionEdges(_, _, _)
ConditionEdges(es, id2name, conditions) ==
    IF conditions = <<>> THEN es
    ELSE ConditionEdges(ProcessCondition(es, id2name, Head(conditions)), id2name,
                        Tail(conditions))

RECURSIVE ResourceEdges(_, _, _)
ResourceEdges(es, id2name, resources) ==
    IF resources = <<>> THEN es
    ELSE ResourceEdges(ProcessResource(es, id2name, Head(resources)), id2name,
                       Tail(resources))

RECURSIVE OutputEdges(_, _, _)
OutputEdges(es, id2name, outputs) ==
    IF outputs = <<>> THEN es
    ELSE OutputEdges(ProcessOutput(es, id2name, Head(outputs)), id2name, Tail(outputs))

\* the root -> parameter edges of _create_nodes
RootParameterEdges(parameters) ==
    [i \in 1..Len(parameters) |-> Edge("root", parameters[i].name, "")]

-----------------------------------------------------------------------------
(* 4.4 Graph analyser: analysis/dependency_graph_analysis.py *)

\* _build_lookup_structures: name in self.outgoing_edges
HasOutgoing(es, name) == \E i \in 1..Len(es) : es[i].from = name

\* self.outgoing_edges.get(name, []) and self.incoming_edges.get(name, [])
outgoing_edges(es, name) ==
    LET out == SelectSeq(es, LAMBDA e : e.from = name)
    IN [i \in 1..Len(out) |-> out[i].to]

incoming_edges(es, name) ==
    LET inc == SelectSeq(es, LAMBDA e : e.to = name)
    IN [i \in 1..Len(inc) |-> inc[i].from]

\* self.node_by_name.get(name): the last node of that name, if any
HasNode(ns, name) == \E i \in 1..Len(ns) : ns[i].name = name

node_by_name(ns, name) ==
    ns[CHOOSE i \in 1..Len(ns) :
          ns[i].name = name /\ \A j \in (i + 1)..Len(ns) : ns[j].name # name]

\* self.nodes_by_type.get(type, [])
nodes_by_type(ns, type) == SelectSeq(ns, LAMBDA n : n.type = type)

Finding(node) == [name |-> node.name, id |-> node.id]

FindingsOf(selected) == [i \in 1..Len(selected) |-> Finding(selected[i])]

\* self.analysis_results[key] = findings, only when there are findings
Report(results, key, findings) ==
    IF findings = <<>> THEN results ELSE MapPut(results, key, findings)

\* check_rule_condition as it would be if it never found a rule
check_rule_condition_Never(condition_blocks, condition_name) == FALSE

\* check_rule_condition
check_rule_condition(condition_blocks, condition_name) ==
    \E i \in 1..Len(condition_blocks) :
        /\ condition_blocks[i].name = condition_name
        /\ condition_blocks[i].ruled_para # NA

\* analyze_unused_parameters as it would be if line 100 read incoming_edges
unused_parameters_NoIncoming(ns, es) ==
    FindingsOf(SelectSeq(nodes_by_type(ns, "parameter"),
                         LAMBDA param : ~(\E i \in 1..Len(es) : es[i].to = param.name)))

\* analyze_unused_parameters, lines 92-107
unused_parameters(ns, es) ==
    FindingsOf(SelectSeq(nodes_by_type(ns, "parameter"),
                         LAMBDA param : ~HasOutgoing(es, param.name)))

\* analyze_unused_conditions, lines 129-146
unused_conditions(ns, es, condition_blocks) ==
    FindingsOf(SelectSeq(nodes_by_type(ns, "condition"),
                         LAMBDA condition :
                             /\ ~HasOutgoing(es, condition.name)
                             /\ ~check_rule_condition(condition_blocks, condition.name)))

\* lines 180-187 and 215-222: some incoming node is a node of type root
HasRootIncoming(ns, es, name) ==
    LET incoming_nodes == incoming_edges(es, name)
    IN \E i \in 1..Len(incoming_nodes) :
           /\ HasNode(ns, incoming_nodes[i])
           /\ node_by_name(ns, incoming_nodes[i]).type = "root"

\* analyze_no_sourced_outputs as it would be without the break of line 187
no_sourced_outputs_NoBreak(ns, es) ==
    LET outputs == nodes_by_type(ns, "output")
    IN Concat([o \in 1..Len(outputs) |->
           LET incoming_nodes == incoming_edges(es, outputs[o].name)
               from_root == SelectSeq(incoming_nodes,
                                      LAMBDA n : HasNode(ns, n) /\ node_by_name(ns, n).type = "root")
           IN [i \in 1..Len(from_root) |-> Finding(outputs[o])]])

\* analyze_no_sourced_outputs, lines 169-187
no_sourced_outputs(ns, es) ==
    FindingsOf(SelectSeq(nodes_by_type(ns, "output"),
                         LAMBDA output : HasRootIncoming(ns, es, output.name)))

\* analyze_no_sourced_conditions as it would be without the test of line 212
no_sourced_conditions_NoRuleTest(ns, es, condition_blocks) ==
    FindingsOf(SelectSeq(nodes_by_type(ns, "condition"),
                         LAMBDA condition : HasRootIncoming(ns, es, condition.name)))

\* analyze_no_sourced_conditions, lines 203-222
no_sourced_conditions(ns, es, condition_blocks) ==
    FindingsOf(SelectSeq(nodes_by_type(ns, "condition"),
                         LAMBDA condition :
                             /\ HasRootIncoming(ns, es, condition.name)
                             /\ ~check_rule_condition(condition_blocks, condition.name)))

\* _get_immediate_children
_get_immediate_children(es, node_name) ==
    LET out == SelectSeq(es, LAMBDA e : e.from = node_name /\ e.to # node_name)
    IN [i \in 1..Len(out) |-> out[i].to]

\* _get_condition_edges: the keys of one of its two maps, in insertion order,
\* and the list a key maps to
ConditionKeys(es, edge_type) ==
    LET typed == SelectSeq(es, LAMBDA e : e.edge_type = edge_type)
    IN Distinct([i \in 1..Len(typed) |-> typed[i].from])

ConditionTargets(es, edge_type, condition_name) ==
    LET typed == SelectSeq(es, LAMBDA e : e.edge_type = edge_type /\ e.from = condition_name)
    IN [i \in 1..Len(typed) |-> typed[i].to]

conditionally_gated_resources(es, condition_name) ==
    ConditionTargets(es, EDGE_CONDITION_EXISTENCE, condition_name)

conditionally_gated_resource_properties(es, condition_name) ==
    ConditionTargets(es, EDGE_CONDITION_PROPERTY, condition_name)

\* analyze_cascading_provision_failure, lines 379-396: the calls of
\* _check_cascading_failure_recursive the three nested loops make, in order
Call(node_name, condition_name, gated_resource_name) ==
    [node_name |-> node_name, condition_name |-> condition_name,
     gated_resource_name |-> gated_resource_name]

TopLevelCalls(es) ==
    LET keys == ConditionKeys(es, EDGE_CONDITION_EXISTENCE)
    IN Concat([c \in 1..Len(keys) |->
           LET gated_resources == conditionally_gated_resources(es, keys[c])
           IN Concat([g \in 1..Len(gated_resources) |->
                  LET children == _get_immediate_children(es, gated_resources[g])
                  IN [i \in 1..Len(children) |->
                         Call(children[i], keys[c], gated_resources[g])]])])

CascadingFinding(call) ==
    [gated_resource |-> call.gated_resource_name,
     dependent_resource |-> call.node_name,
     condition |-> call.condition_name]

\* _check_cascading_failure_recursive as it would be without lines 425-427
CascadeStops_NoPropertyStop(es, vis, call) ==
    \/ call.node_name \in vis
    \/ SeqContains(conditionally_gated_resources(es, call.condition_name), call.node_name)

\* _check_cascading_failure_recursive as it would be without lines 420-422
CascadeStops_NoResourceStop(es, vis, call) ==
    \/ call.node_name \in vis
    \/ SeqContains(conditionally_gated_resource_properties(es, call.condition_name),
                   call.node_name)

\* _check_cascading_failure_recursive, lines 415-427: the call returns
\* before it registers anything
CascadeStops(es, vis, call) ==
    \/ call.node_name \in vis
    \/ SeqContains(conditionally_gated_resources(es, call.condition_name), call.node_name)
    \/ SeqContains(conditionally_gated_resource_properties(es, call.condition_name),
                   call.node_name)

\* isinstance(list, list) and id in list: a field that is "NA" holds no id
ListHolds(list, id) == list # NA /\ SeqContains(list, id)

\* _get_node_id_by_name: the id of the node of that name, "" for None
_get_node_id_by_name(ns, node_name) ==
    IF HasNode(ns, node_name) THEN node_by_name(ns, node_name).id ELSE ""

\* _find_resource_in_ir, and node_ir.get('properties', []) of what it finds:
\* the first resource of that name, else the first output of that name, which
\* has no key properties
_find_resource_in_ir(parsed, resource_name) ==
    LET rs == SelectSeq(parsed.resources, LAMBDA r : r.name = resource_name)
        os == SelectSeq(parsed.outputs, LAMBDA o : o.name = resource_name)
    IN IF rs # <<>>
       THEN [found |-> TRUE, na |-> rs[1].properties.na, properties |-> rs[1].properties.units]
       ELSE [found |-> os # <<>>, na |-> FALSE, properties |-> <<>>]

\* lines 465-470: the loop that looks for the condition-property edge
has_property_edge(es, node_name, condition_name) ==
    \E i \in 1..Len(es) : es[i] = Edge(condition_name, node_name, EDGE_CONDITION_PROPERTY)

\* _has_safe_condition_property_edge raises: the loop of line 487 runs over
\* the string "NA" of a resource without properties
_has_safe_condition_property_edge_raises(es, ns, parsed, node_name, condition_name, gated_resource_name) ==
    /\ has_property_edge(es, node_name, condition_name)
    /\ _get_node_id_by_name(ns, gated_resource_name) # ""
    /\ _find_resource_in_ir(parsed, node_name).found
    /\ _find_resource_in_ir(parsed, node_name).na

\* _has_safe_condition_property_edge with the two tests of lines 489-493 made
\* on any two properties of the node
_has_safe_condition_property_edge_AnyProperty(es, ns, parsed, node_name, condition_name, condition_id, gated_resource_name) ==
    LET gated_resource_id == _get_node_id_by_name(ns, gated_resource_name)
        node_ir == _find_resource_in_ir(parsed, node_name)
    IN /\ has_property_edge(es, node_name, condition_name)
       /\ gated_resource_id # ""
       /\ node_ir.found
       /\ \E i \in 1..Len(node_ir.properties) :
              ListHolds(node_ir.properties[i].resource_refs, gated_resource_id)
       /\ \E i \in 1..Len(node_ir.properties) :
              ListHolds(node_ir.properties[i].depend_conditions, condition_id)

\* _has_safe_condition_property_edge, lines 446-497, the value it returns
_has_safe_condition_property_edge(es, ns, parsed, node_name, condition_name, condition_id, gated_resource_name) ==
    LET gated_resource_id == _get_node_id_by_name(ns, gated_resource_name)
        node_ir == _find_resource_in_ir(parsed, node_name)
    IN /\ has_property_edge(es, node_name, condition_name)
       /\ gated_resource_id # ""
       /\ node_ir.found
       /\ \E i \in 1..Len(node_ir.properties) :
              /\ ListHolds(node_ir.properties[i].resource_refs, gated_resource_id)
              /\ ListHolds(node_ir.properties[i].depend_conditions, condition_id)

\* Python's order of the node names (code points), as the position in this list
NameOrder ==
    <<"A", "AWS.Region", "B", "C", "Cond.Ghost", "Cond.IsProd", "Cond.Other", "Cond.R1",
      "D", "Env", "Mod", "Out.Out1", "root">>

NameRank(name) == CHOOSE i \in 1..Len(NameOrder) : NameOrder[i] = name

\* cycle.index(min(cycle))
MinIndex(cycle) ==
    CHOOSE i \in 1..Len(cycle) :
        /\ \A j \in 1..Len(cycle) : NameRank(cycle[i]) <= NameRank(cycle[j])
        /\ \A j \in 1..(i - 1) : cycle[j] # cycle[i]

\* path.index(node)
IndexOf(path, node) ==
    CHOOSE i \in 1..Len(path) : path[i] = node /\ \A j \in 1..(i - 1) : path[j] # node

\* the state of the search of analyze_circular_dependencies: the cycles
\* returned so far, in the order the calls return them, the set visited, and
\* the nodes entered (by the calls that pass both tests and reach lines
\* 262-264), in the order of the calls
NewSearch(vis) == [cycles |-> <<>>, visited |-> vis, entered |-> <<>>]

\* analyze_circular_dependencies.dfs_cycle_detection, lines 243-278: the
\* state of the search when the call returns
RECURSIVE dfs_cycle_detection(_, _, _, _, _), DfsOutgoing(_, _, _, _, _)
\* dfs_cycle_detection whose cycle is the whole path, not the part from the
\* first visit of the node
dfs_cycle_detection_WholePath(es, node, path, search, rec_stack) ==
    IF node \in rec_stack
    THEN [search EXCEPT !.cycles = Append(@, path \o <<node>>)]
    ELSE IF node \in search.visited THEN search
    ELSE DfsOutgoing(es, outgoing_edges(es, node), Append(path, node),
                     [search EXCEPT !.visited = @ \cup {node}, !.entered = Append(@, node)],
                     rec_stack \cup {node})

\* dfs_cycle_detection with the two tests in the other order: a node on the
\* recursion stack is visited, so no cycle is ever returned
dfs_cycle_detection_VisitedFirst(es, node, path, search, rec_stack) ==
    IF node \in search.visited THEN search
    ELSE IF node \in rec_stack
    THEN [search EXCEPT !.cycles =
              Append(@, SubSeq(path, IndexOf(path, node), Len(path)) \o <<node>>)]
    ELSE DfsOutgoing(es, outgoing_edges(es, node), Append(path, node),
                     [search EXCEPT !.visited = @ \cup {node}, !.entered = Append(@, node)],
                     rec_stack \cup {node})

\* dfs_cycle_detection as it would be without lines 258-259: a node that was
\* visited is entered again
dfs_cycle_detection_NoVisitedTest(es, node, path, search, rec_stack) ==
    IF node \in rec_stack
    THEN [search EXCEPT !.cycles =
              Append(@, SubSeq(path, IndexOf(path, node), Len(path)) \o <<node>>)]
    ELSE DfsOutgoing(es, outgoing_edges(es, node), Append(path, node),
                     [search EXCEPT !.visited = @ \cup {node}, !.entered = Append(@, node)],
                     rec_stack \cup {node})

dfs_cycle_detection(es, node, path, search, rec_stack) ==
    IF node \in rec_stack
    THEN [search EXCEPT !.cycles =
              Append(@, SubSeq(path, IndexOf(path, node), Len(path)) \o <<node>>)]
    ELSE IF node \in search.visited THEN search
    ELSE DfsOutgoing(es, outgoing_edges(es, node), Append(path, node),
                     [search EXCEPT !.visited = @ \cup {node}, !.entered = Append(@, node)],
                     rec_stack \cup {node})

\* lines 268-274: the loop over the outgoing edges of a node
DfsOutgoing(es, outgoing_nodes, path, search, rec_stack) ==
    IF outgoing_nodes = <<>> THEN search
    ELSE DfsOutgoing(es, Tail(outgoing_nodes), path,
                     dfs_cycle_detection(es, Head(outgoing_nodes), path, search, rec_stack),
                     rec_stack)

\* lines 289-300: the cycles whose rotation to the smallest name was not
\* seen before
NormalizedCycle(cycle) ==
    SubSeq(cycle, MinIndex(cycle), Len(cycle)) \o SubSeq(cycle, 1, MinIndex(cycle) - 1)

\* lines 289-300 as they would be without the test on seen_cycles
UniqueCycles_KeepAll(cycles, seen_cycles) == cycles

RECURSIVE UniqueCycles(_, _)
UniqueCycles(cycles, seen_cycles) ==
    IF cycles = <<>> THEN <<>>
    ELSE IF NormalizedCycle(Head(cycles)) \in seen_cycles
         THEN UniqueCycles(Tail(cycles), seen_cycles)
         ELSE <<Head(cycles)>>
              \o UniqueCycles(Tail(cycles), seen_cycles \cup {NormalizedCycle(Head(cycles))})

TypeOrder == <<"condition", "output", "parameter", "resource", "root">>

RECURSIVE JoinTypes(_)
JoinTypes(types) ==
    IF types = <<>> THEN ""
    ELSE IF Len(types) = 1 THEN types[1]
    ELSE types[1] \o "_" \o JoinTypes(Tail(types))

\* _get_cycle_type as it would be without the branch of a single type
_get_cycle_type_AlwaysMixed(ns, cycle) ==
    LET unique_types == {node_by_name(ns, cycle[i]).type :
                            i \in {j \in 1..(Len(cycle) - 1) : HasNode(ns, cycle[j])}}
    IN "mixed_cycle_" \o JoinTypes(SelectSeq(TypeOrder, LAMBDA t : t \in unique_types))

\* _get_cycle_type
_get_cycle_type(ns, cycle) ==
    LET unique_types == {node_by_name(ns, cycle[i]).type :
                            i \in {j \in 1..(Len(cycle) - 1) : HasNode(ns, cycle[j])}}
    IN IF Cardinality(unique_types) = 1
       THEN "pure_" \o (CHOOSE t \in unique_types : TRUE) \o "_cycle"
       ELSE "mixed_cycle_" \o JoinTypes(SelectSeq(TypeOrder, LAMBDA t : t \in unique_types))

\* lines 303-311; nodes_involved is list(set(...)): kept as the set
CycleInfo(ns, cycle) ==
    [cycle |-> cycle,
     cycle_length |-> Len(cycle) - 1,
     cycle_type |-> _get_cycle_type(ns, cycle),
     nodes_involved |-> {cycle[i] : i \in 1..(Len(cycle) - 1)}]

formatted_cycles(ns, cycles) ==
    LET unique_cycles == UniqueCycles(cycles, {})
    IN [i \in 1..Len(unique_cycles) |-> CycleInfo(ns, unique_cycles[i])]

-----------------------------------------------------------------------------
(* The documents the parser is run on *)

RefTo(name) == Fn("Ref", Str(name))
EqualsOf(a, b) == Fn("Equals", List(<<a, b>>))
IfOf(cond, a, b) == Fn("If", List(<<Str(cond), a, b>>))
RuleOf(assert) ==
    Dict(<< <<"Assertions", List(<<Dict(<< <<"Assert", assert>> >>)>>)>> >>)
Section(name, body) == Dict(<< <<name, body>> >>)
NoSection == Dict(<<>>)

ParametersChoices ==
    {Section("Env", Dict(<< <<"Type", Str("String")>> >>))}

RulesChoices ==
    {NoSection,
     Section("R1", RuleOf(EqualsOf(RefTo("Env"), Str("prod")))),
     Section("R1", RuleOf(Str("literal")))}

IsProdBodies ==
    {EqualsOf(RefTo("Env"), Str("prod")),
     EqualsOf(Str("a"), Str("b")),
     EqualsOf(RefTo("AWS::Region"), RefTo("Env")),
     EqualsOf(RefTo("AWS::Region"), Str("us-east-1"))}

OtherCondition == <<"Other", Fn("Not", List(<<Fn("Condition", Str("IsProd"))>>))>>

ConditionsChoices ==
    {Dict(<< <<"IsProd", body>> >>) : body \in IsProdBodies}
    \cup {Dict(<< <<"IsProd", EqualsOf(RefTo("Env"), Str("prod"))>>, OtherCondition >>)}

BucketType == <<"Type", Str("AWS::S3::Bucket")>>

\* resource A: optionally gated, by a declared or by an undeclared condition
AChoices ==
    {Dict(<<BucketType>> \o c) :
        c \in {<<>>, << <<"Condition", Str("IsProd")>> >>, << <<"Condition", Str("Ghost")>> >>}}
    \cup {Dict(<<BucketType, <<"Condition", Str("IsProd")>>,
                 <<"Properties", Dict(<< <<"Peer", RefTo("B")>> >>)>> >>),
          Dict(<<BucketType, <<"Properties", Dict(<< <<"Peer", RefTo("B")>> >>)>> >>),
          Dict(<<BucketType, <<"Properties", Dict(<< <<"Self", RefTo("A")>> >>)>> >>)}

\* resource B: optionally DependsOn the filtered resource Mod
BChoices ==
    {Dict(<<BucketType>> \o d \o << <<"Properties", Dict(<< <<"Bucket", v>> >>)>> >>) :
        d \in {<<>>, << <<"DependsOn", Str("Mod")>> >>},
        v \in {RefTo("A"),
               IfOf("IsProd", RefTo("A"), RefTo("Env")),
               RefTo("Env"),
               Str("literal-string")}}
    \cup {Dict(<<BucketType, <<"Condition", Str("IsProd")>>,
                 <<"Properties", Dict(<< <<"Bucket", RefTo("A")>> >>)>> >>)}

ModResource == <<"Mod", Dict(<< <<"Type", Str("Rain::Module")>> >>)>>

ResourcesChoices ==
    {Dict(<< <<"A", a>>, <<"B", b>>, ModResource >>) : a \in AChoices, b \in BChoices}

OutputsChoices ==
    {NoSection}
    \cup {Section("Out1", Dict(<< <<"Value", v>> >>)) :
             v \in {Str("literal-string"), RefTo("B"), RefTo("Env")}}
    \cup {Section("Out1", Dict(<< <<"Value", RefTo("B")>>, <<"Condition", Str("IsProd")>> >>))}

Templates ==
    {[Parameters |-> p, Mappings |-> NoSection, Rules |-> r, Conditions |-> c,
      Resources |-> res, Outputs |-> o] :
        p \in ParametersChoices, r \in RulesChoices, c \in ConditionsChoices,
        res \in ResourcesChoices, o \in OutputsChoices}

-----------------------------------------------------------------------------
(* State machine: parse(), build_graph(), analyze() *)

EmptyIR == [parameters |-> <<>>, conditions |-> <<>>, resources |-> <<>>, outputs |-> <<>>]

Init ==
    /\ template \in Templates
    /\ pc = "extract_parameters"
    /\ idx = 1
    /\ para_name_to_id = EmptyMap
    /\ condition_name_to_id = EmptyMap
    /\ resource_name_to_id = EmptyMap
    /\ ir = EmptyIR
    /\ nodes = <<>>
    /\ edges = <<>>
    /\ node_id_to_name = EmptyMap
    /\ analysis_results = EmptyMap
    /\ visited = {}
    /\ stack = <<>>
    /\ todo = <<>>
    /\ found = <<>>

\* extract_parameters
ExtractParameters ==
    /\ pc = "extract_parameters"
    /\ ir' = [ir EXCEPT !.parameters = extract_parameters(template)]
    /\ para_name_to_id' = RegisterAll(para_name_to_id, extract_parameters(template))
    /\ pc' = "extract_rules"
    /\ idx' = 1
    /\ UNCHANGED <<template, condition_name_to_id, resource_name_to_id, nodes, edges,
                   node_id_to_name, analysis_results, visited, stack, todo, found>>

\* extract_rules_helper: one iteration of the loop over the rules
ExtractRule ==
    /\ pc = "extract_rules"
    /\ idx <= Len(template.Rules.items)
    /\ LET rule_name == CFN_CONDITION_PREFIX \o template.Rules.items[idx][1]
           rule_data == template.Rules.items[idx][2]
           ruled == RuledNames(rule_data)
           depend == RuleDependNames(rule_data)
       IN IF Raises(ruled) \/ Raises(depend)
             \/ KeyErrorIn(ruled, para_name_to_id) \/ KeyErrorIn(depend, para_name_to_id)
          THEN /\ pc' = "parse_error"
               /\ UNCHANGED <<ir, idx>>
          ELSE /\ \E ruled_para \in IdListsOf(ruled, para_name_to_id),
                     depend_para \in IdListsOf(depend, para_name_to_id) :
                      ir' = [ir EXCEPT !.conditions =
                                Append(@, ConditionRecord(IdOf("rule", rule_name), rule_name,
                                                          ruled_para, depend_para, NA))]
               /\ idx' = idx + 1
               /\ pc' = pc
    /\ UNCHANGED <<template, para_name_to_id, condition_name_to_id, resource_name_to_id,
                   nodes, edges, node_id_to_name, analysis_results, visited, stack, todo,
                   found>>

\* extract_conditions_helper, lines 343-345: the ids of all conditions are
\* registered before any body is walked
RegisterConditions ==
    /\ pc = "extract_rules"
    /\ idx > Len(template.Rules.items)
    /\ condition_name_to_id' =
           RegisterAll(condition_name_to_id,
                       [i \in 1..Len(template.Conditions.items) |->
                           LET name == CFN_CONDITION_PREFIX \o template.Conditions.items[i][1]
                           IN [name |-> name, id |-> IdOf("cond", name)]])
    /\ pc' = "extract_conditions"
    /\ idx' = 1
    /\ UNCHANGED <<template, para_name_to_id, resource_name_to_id, ir, nodes, edges,
                   node_id_to_name, analysis_results, visited, stack, todo, found>>

\* extract_conditions_helper, lines 347-371: one iteration of the second loop
ExtractCondition ==
    /\ pc = "extract_conditions"
    /\ idx <= Len(template.Conditions.items)
    /\ LET condition_name == CFN_CONDITION_PREFIX \o template.Conditions.items[idx][1]
           condition_data == template.Conditions.items[idx][2]
           depend == CondDependNames(condition_data)
       IN IF Raises(depend) \/ KeyErrorIn(depend, para_name_to_id)
          THEN /\ pc' = "parse_error"
               /\ UNCHANGED <<ir, idx>>
          ELSE /\ \E depend_para \in IdListsOf(depend, para_name_to_id) :
                      ir' = [ir EXCEPT !.conditions =
                                Append(@, ConditionRecord(
                                              condition_name_to_id[condition_name],
                                              condition_name, NA, depend_para,
                                              CondDependCond(condition_data,
                                                             condition_name_to_id)))]
               /\ idx' = idx + 1
               /\ pc' = pc
    /\ UNCHANGED <<template, para_name_to_id, condition_name_to_id, resource_name_to_id,
                   nodes, edges, node_id_to_name, analysis_results, visited, stack, todo,
                   found>>

\* extract_resources
ExtractResources ==
    /\ pc = "extract_conditions"
    /\ idx > Len(template.Conditions.items)
    /\ LET resources == extract_resources(template, para_name_to_id, condition_name_to_id)
       IN IF AnyRaised(resources)
          THEN /\ pc' = "parse_error"
               /\ UNCHANGED ir
          ELSE /\ ir' = [ir EXCEPT !.resources = DropRaised(resources)]
               /\ pc' = "extract_outputs"
    /\ resource_name_to_id' = ResourceIds(template)
    /\ UNCHANGED <<template, idx, para_name_to_id, condition_name_to_id, nodes, edges,
                   node_id_to_name, analysis_results, visited, stack, todo, found>>

\* extract_outputs; parse() returns the IR
ExtractOutputs ==
    /\ pc = "extract_outputs"
    /\ LET outputs == extract_outputs(template, resource_name_to_id, para_name_to_id,
                                      condition_name_to_id)
       IN IF AnyRaised(outputs)
          THEN /\ pc' = "parse_error"
               /\ UNCHANGED ir
          ELSE /\ ir' = [ir EXCEPT !.outputs = DropRaised(outputs)]
               /\ pc' = "create_nodes"
    /\ UNCHANGED <<template, idx, para_name_to_id, condition_name_to_id,
                   resource_name_to_id, nodes, edges, node_id_to_name, analysis_results,
                   visited, stack, todo, found>>

\* build_graph steps 1 and 2: the root node, then _create_nodes
CreateNodes ==
    /\ pc = "create_nodes"
    /\ LET parameters == RenamedParameters(ir.parameters)
           ns == <<Node(IdOf("root", "root"), "root", "root")>>
                 \o NodesOf(parameters, "parameter") \o NodesOf(ir.conditions, "condition")
                 \o NodesOf(ir.resources, "resource") \o NodesOf(ir.outputs, "output")
       IN /\ ir' = [ir EXCEPT !.parameters = parameters]
          /\ nodes' = ns
          /\ node_id_to_name' = RegisterAll(EmptyMap,
                                    [i \in 1..Len(ns) |-> [name |-> ns[i].id, id |-> ns[i].name]])
          /\ edges' = RootParameterEdges(parameters)
    /\ pc' = "process_conditions"
    /\ UNCHANGED <<template, idx, para_name_to_id, condition_name_to_id,
                   resource_name_to_id, analysis_results, visited, stack, todo, found>>

\* build_graph step 3
ProcessConditions ==
    /\ pc = "process_conditions"
    /\ edges' = ConditionEdges(edges, node_id_to_name, ir.conditions)
    /\ pc' = "process_resources"
    /\ UNCHANGED <<template, idx, para_name_to_id, condition_name_to_id,
                   resource_name_to_id, ir, nodes, node_id_to_name, analysis_results,
                   visited, stack, todo, found>>

\* build_graph step 4
ProcessResources ==
    /\ pc = "process_resources"
    /\ edges' = ResourceEdges(edges, node_id_to_name, ir.resources)
    /\ pc' = "process_outputs"
    /\ UNCHANGED <<template, idx, para_name_to_id, condition_name_to_id,
                   resource_name_to_id, ir, nodes, node_id_to_name, analysis_results,
                   visited, stack, todo, found>>

\* build_graph steps 5 and 6
ProcessOutputs ==
    /\ pc = "process_outputs"
    /\ edges' = OutputEdges(edges, node_id_to_name, ir.outputs)
    /\ pc' = "analyze_unused_parameters"
    /\ UNCHANGED <<template, idx, para_name_to_id, condition_name_to_id,
                   resource_name_to_id, ir, nodes, node_id_to_name, analysis_results,
                   visited, stack, todo, found>>

\* an analyser that strips the edges out of root from the edge list it was
\* handed
AnalyzeFrame_StripsRootEdges ==
    /\ edges' = SelectSeq(edges, LAMBDA e : e.from # "root")
    /\ UNCHANGED <<template, idx, para_name_to_id, condition_name_to_id,
                   resource_name_to_id, ir, nodes, node_id_to_name>>

\* what analyze() and its six analyses never write
AnalyzeFrame ==
    UNCHANGED <<template, idx, para_name_to_id, condition_name_to_id,
                resource_name_to_id, ir, nodes, edges, node_id_to_name>>

\* analyze_unused_parameters
AnalyzeUnusedParameters ==
    /\ pc = "analyze_unused_parameters"
    /\ analysis_results' =
           Report(analysis_results, "unused_parameters", unused_parameters(nodes, edges))
    /\ pc' = "analyze_unused_conditions"
    /\ UNCHANGED <<visited, stack, todo, found>>
    /\ AnalyzeFrame

\* analyze_unused_conditions
AnalyzeUnusedConditions ==
    /\ pc = "analyze_unused_conditions"
    /\ analysis_results' =
           Report(analysis_results, "unused_conditions",
                  unused_conditions(nodes, edges, ir.conditions))
    /\ pc' = "analyze_no_sourced_outputs"
    /\ UNCHANGED <<visited, stack, todo, found>>
    /\ AnalyzeFrame

\* analyze_no_sourced_outputs
AnalyzeNoSourcedOutputs ==
    /\ pc = "analyze_no_sourced_outputs"
    /\ analysis_results' =
           Report(analysis_results, "no_sourced_outputs", no_sourced_outputs(nodes, edges))
    /\ pc' = "analyze_no_sourced_conditions"
    /\ UNCHANGED <<visited, stack, todo, found>>
    /\ AnalyzeFrame

\* analyze_no_sourced_conditions
AnalyzeNoSourcedConditions ==
    /\ pc = "analyze_no_sourced_conditions"
    /\ analysis_results' =
           Report(analysis_results, "no_sourced_conditions",
                  no_sourced_conditions(nodes, edges, ir.conditions))
    /\ pc' = "analyze_circular_dependencies"
    /\ UNCHANGED <<visited, stack, todo, found>>
    /\ AnalyzeFrame

\* analyze_circular_dependencies, lines 281-286: one DFS from a node the
\* loop over the set all_nodes finds unvisited; the set is iterated in an
\* unspecified order
CycleSearchFrom ==
    /\ pc = "analyze_circular_dependencies"
    /\ \E node_name \in {nodes[i].name : i \in 1..Len(nodes)} \ visited :
           LET r == dfs_cycle_detection(edges, node_name, <<>>, NewSearch(visited), {})
           IN /\ visited' = r.visited
              /\ found' = found \o r.cycles
    /\ UNCHANGED <<pc, analysis_results, stack, todo>>
    /\ AnalyzeFrame

\* analyze_circular_dependencies, lines 288-314
ReportCycles ==
    /\ pc = "analyze_circular_dependencies"
    /\ {nodes[i].name : i \in 1..Len(nodes)} \subseteq visited
    /\ analysis_results' =
           Report(analysis_results, "circular_dependencies", formatted_cycles(nodes, found))
    /\ pc' = "analyze_cascading_provision_failure"
    /\ visited' = {}
    /\ found' = <<>>
    /\ UNCHANGED <<stack, todo>>
    /\ AnalyzeFrame

\* analyze_cascading_provision_failure, lines 373-376
StartCascading ==
    /\ pc = "analyze_cascading_provision_failure"
    /\ todo' = TopLevelCalls(edges)
    /\ found' = <<>>
    /\ pc' = "check_cascading_failure"
    /\ UNCHANGED <<analysis_results, visited, stack>>
    /\ AnalyzeFrame

\* _check_cascading_failure_recursive as it would be without lines 415-417
CheckCascadingFailure_NoVisited(call, vis, callers) ==
    IF Len(callers) >= RecursionLimit
    THEN /\ pc' = "recursion_error"
         /\ UNCHANGED <<visited, found>>
         /\ stack' = callers
    ELSE /\ pc' = pc
         /\ visited' = vis
         /\ IF CascadeStops(edges, {}, call)
            THEN /\ found' = found
                 /\ stack' = callers
            ELSE /\ found' = Append(found, CascadingFinding(call))
                 /\ stack' = Append(callers,
                                    [call |-> call,
                                     children |-> _get_immediate_children(edges, call.node_name),
                                     i |-> 1])

\* _check_cascading_failure_recursive entered with `call` while `vis` is the
\* visited set it is handed: it returns at once, or registers the node and
\* starts the loop over its children; past the recursion limit it raises
CheckCascadingFailure(call, vis, callers) ==
    IF Len(callers) >= RecursionLimit
    THEN /\ pc' = "recursion_error"
         /\ UNCHANGED <<visited, found>>
         /\ stack' = callers
    ELSE /\ pc' = pc
         /\ visited' = vis \cup {call.node_name}
         /\ IF CascadeStops(edges, vis, call)
            THEN /\ found' = found
                 /\ stack' = callers
            ELSE /\ found' = Append(found, CascadingFinding(call))
                 /\ stack' = Append(callers,
                                    [call |-> call,
                                     children |-> _get_immediate_children(edges, call.node_name),
                                     i |-> 1])

\* lines 387-396: the next call of the loops of analyze_cascading_provision_failure,
\* with a fresh visited set
CascadeTopCall ==
    /\ pc = "check_cascading_failure"
    /\ stack = <<>>
    /\ todo # <<>>
    /\ todo' = Tail(todo)
    /\ CheckCascadingFailure(Head(todo), {}, <<>>)
    /\ UNCHANGED analysis_results
    /\ AnalyzeFrame

\* lines 438-442: the running call recurses into its next child
CascadeChildCall ==
    /\ pc = "check_cascading_failure"
    /\ stack # <<>>
    /\ LET top == stack[Len(stack)]
       IN /\ top.i <= Len(top.children)
          /\ CheckCascadingFailure(
                 Call(top.children[top.i], top.call.condition_name,
                      top.call.gated_resource_name),
                 visited,
                 [stack EXCEPT ![Len(stack)].i = top.i + 1])
    /\ UNCHANGED <<analysis_results, todo>>
    /\ AnalyzeFrame

\* the running call has gone through its children and returns
CascadeReturn ==
    /\ pc = "check_cascading_failure"
    /\ stack # <<>>
    /\ stack[Len(stack)].i > Len(stack[Len(stack)].children)
    /\ stack' = SubSeq(stack, 1, Len(stack) - 1)
    /\ UNCHANGED <<pc, analysis_results, visited, todo, found>>
    /\ AnalyzeFrame

\* analyze_cascading_provision_failure, lines 398-399; analyze() returns
FinishCascading ==
    /\ pc = "check_cascading_failure"
    /\ stack = <<>>
    /\ todo = <<>>
    /\ analysis_results' =
           Report(analysis_results, "cascading_provisioning_failures", found)
    /\ pc' = "done"
    /\ UNCHANGED <<visited, stack, todo, found>>
    /\ AnalyzeFrame

Analyze ==
    \/ AnalyzeUnusedParameters
    \/ AnalyzeUnusedConditions
    \/ AnalyzeNoSourcedOutputs
    \/ AnalyzeNoSourcedConditions
    \/ CycleSearchFrom
    \/ ReportCycles
    \/ StartCascading
    \/ CascadeTopCall
    \/ CascadeChildCall
    \/ CascadeReturn
    \/ FinishCascading

Next ==
    \/ ExtractParameters
    \/ ExtractRule
    \/ RegisterConditions
    \/ ExtractCondition
    \/ ExtractResources
    \/ ExtractOutputs
    \/ CreateNodes
    \/ ProcessConditions
    \/ ProcessResources
    \/ ProcessOutputs
    \/ Analyze

Spec == Init /\ [][Next]_vars

-----------------------------------------------------------------------------
(* The documents parse() and build_graph() are run on to see references to *)
(* undeclared names, intrinsic functions of unexpected shape, declarations *)
(* in either order and outputs with an Export: one well-formed document    *)
(* with one section varied at a time.                                      *)

BaseTemplate ==
    [Parameters |-> Section("Env", Dict(<< <<"Type", Str("String")>> >>)),
     Mappings |-> NoSection,
     Rules |-> NoSection,
     Conditions |-> Section("IsProd", EqualsOf(RefTo("Env"), Str("prod"))),
     Resources |-> Dict(<< <<"A", Dict(<<BucketType>>)>>,
                           <<"B", Dict(<<BucketType,
                                         <<"Properties",
                                           Dict(<< <<"Bucket", RefTo("A")>> >>)>> >>)>> >>),
     Outputs |-> Section("Out1", Dict(<< <<"Value", RefTo("B")>> >>))]

\* a rule with a RuleCondition and one assertion
RuleWith(rule_condition, assert) ==
    Dict(<< <<"RuleCondition", rule_condition>>,
            <<"Assertions", List(<<Dict(<< <<"Assert", assert>> >>)>>)>> >>)

\* resources A and B, B with the one property Bucket
ResourcesWith(bucket) ==
    Dict(<< <<"A", Dict(<<BucketType>>)>>,
            <<"B", Dict(<<BucketType, <<"Properties", Dict(<< <<"Bucket", bucket>> >>)>> >>)>> >>)

\* a reference to the name Missing, which no section declares, in a rule
\* assertion, a rule condition, a condition body, a resource property, an
\* output value
UnknownReferenceTemplates ==
    {[BaseTemplate EXCEPT !.Rules = Section("R1", RuleOf(EqualsOf(RefTo("Missing"), Str("prod"))))],
     [BaseTemplate EXCEPT !.Rules =
         Section("R1", RuleWith(EqualsOf(RefTo("Missing"), Str("prod")),
                                EqualsOf(RefTo("Env"), Str("prod"))))],
     [BaseTemplate EXCEPT !.Conditions = Section("IsProd", EqualsOf(RefTo("Missing"), Str("prod")))],
     [BaseTemplate EXCEPT !.Resources = ResourcesWith(RefTo("Missing"))],
     [BaseTemplate EXCEPT !.Outputs = Section("Out1", Dict(<< <<"Value", RefTo("Missing")>> >>))]}

\* the values of unexpected shape an intrinsic function is given
MisshapenValues ==
    {Fn("GetAtt", Other),
     Fn("FindInMap", Str("RegionMap")),
     Fn("FindInMap", Dict(<< <<"RegionMap", Str("AMI")>> >>)),
     Fn("Sub", List(<<Str("${Env}")>>)),
     Fn("Sub", List(<<Str("${Env}"), Str("literal-string")>>)),
     Fn("Join", List(<<Str(",")>>)),
     Fn("If", List(<<Str("IsProd"), RefTo("A")>>))}

\* an intrinsic function of unexpected shape as the value of a resource
\* property, and as the body of a condition
ShapeTemplates ==
    {[BaseTemplate EXCEPT !.Resources = ResourcesWith(v)] : v \in MisshapenValues}
    \cup {[BaseTemplate EXCEPT !.Conditions =
              Section("IsProd", EqualsOf(v, Str("prod")))] :
             v \in {Fn("GetAtt", Other), Fn("Sub", List(<<Str("${Env}")>>))}}

\* two conditions, the second named by the first under a Condition key, and
\* two resources, the second referenced by a property of the first: each
\* pair declared in either order
OrderTemplates ==
    LET IsProd == <<"IsProd", EqualsOf(RefTo("Env"), Str("prod"))>>
        A == <<"A", Dict(<<BucketType, <<"Properties", Dict(<< <<"Peer", RefTo("B")>> >>)>> >>)>>
        B == <<"B", Dict(<<BucketType>>)>>
    IN {[BaseTemplate EXCEPT !.Conditions = Dict(c), !.Resources = Dict(r)] :
           c \in {<<OtherCondition, IsProd>>, <<IsProd, OtherCondition>>},
           r \in {<<A, B>>, <<B, A>>}}

\* outputs with and without a data source in Value and in Export
ExportTemplates ==
    {[BaseTemplate EXCEPT !.Outputs = Section("Out1", Dict(<< <<"Value", v>> >> \o e))] :
        v \in {Str("literal-string"), RefTo("B"), RefTo("Env")},
        e \in {<<>>,
               << <<"Export", Dict(<< <<"Name", Str("literal-string")>> >>)>> >>,
               << <<"Export", Dict(<< <<"Name", RefTo("Env")>> >>)>> >>,
               << <<"Export", Dict(<< <<"Name", RefTo("A")>> >>)>> >>}}

\* Sub given [str, bindings]: a bound name that occurs once, one that occurs
\* twice, a pseudo-parameter shadowed by a binding whose value references
\* it, and an unbound name with an attribute
SubValues ==
    {Fn("Sub", List(<<Str("${id}"), Dict(<< <<"id", RefTo("A")>> >>)>>)),
     Fn("Sub", List(<<Str("${id}-${id}"), Dict(<< <<"id", RefTo("A")>> >>)>>)),
     Fn("Sub", List(<<Str("${AWS::Region}-${Env}"),
                      Dict(<< <<"AWS::Region", RefTo("AWS::Region")>> >>)>>)),
     Fn("Sub", List(<<Str("${A.Arn}"), Dict(<< <<"id", RefTo("Env")>> >>)>>))}

\* the parameters Env and id, and a Sub with bindings as the value of a
\* resource property
SubTemplates ==
    {[BaseTemplate EXCEPT
          !.Parameters = Dict(<< <<"Env", Dict(<< <<"Type", Str("String")>> >>)>>,
                                 <<"id", Dict(<< <<"Type", Str("String")>> >>)>> >>),
          !.Resources = ResourcesWith(v)] : v \in SubValues}

\* a mapping, named apart from or like the declared parameter, looked up by
\* a resource property with a pseudo-parameter as the top-level key
MappingTemplates ==
    {[BaseTemplate EXCEPT
          !.Mappings = Section(m, Dict(<<>>)),
          !.Resources = ResourcesWith(Fn("FindInMap",
                                         List(<<Str(m), RefTo("AWS::Region"), Str("AMI")>>)))] :
        m \in {"RegionMap", "Env"}}

\* condition edges of every kind: A gated by a declared or by an undeclared
\* condition, B with an If on one property, the output gated and with an If
\* on its Value
ConditionEdgeTemplates ==
    {[BaseTemplate EXCEPT
          !.Resources = Dict(<< <<"A", Dict(<<BucketType, <<"Condition", Str(c)>> >>)>>,
                                <<"B", Dict(<<BucketType,
                                              <<"Properties",
                                                Dict(<< <<"Bucket",
                                                          IfOf("IsProd", RefTo("A"),
                                                               Str("literal-string"))>> >>)>> >>)>> >>),
          !.Outputs = Section("Out1", Dict(<< <<"Value", IfOf("IsProd", RefTo("B"),
                                                                Str("literal-string"))>>,
                                              <<"Condition", Str("IsProd")>> >>))] :
        c \in {"IsProd", "Ghost"}}

\* a pseudo-parameter referenced by a condition body, by a resource property
\* and by the Value of the output
PseudoTemplates ==
    {[BaseTemplate EXCEPT
          !.Conditions = Section("IsProd", EqualsOf(RefTo("AWS::Region"), Str("us-east-1"))),
          !.Resources = ResourcesWith(RefTo("AWS::Region")),
          !.Outputs = Section("Out1", Dict(<< <<"Value", RefTo("AWS::Region")>> >>))]}

\* A gated by IsProd; B with the reference to A in one property and the If
\* on IsProd in another one, in either order
SplitGuardTemplates ==
    {[BaseTemplate EXCEPT
          !.Resources = Dict(<< <<"A", Dict(<<BucketType, <<"Condition", Str("IsProd")>> >>)>>,
                                <<"B", Dict(<<BucketType, <<"Properties", Dict(ps)>> >>)>> >>)] :
        ps \in {<< <<"Bucket", RefTo("A")>>,
                   <<"Tag", IfOf("IsProd", Str("literal-string"), Str("literal-string"))>> >>,
                << <<"Tag", IfOf("IsProd", Str("literal-string"), Str("literal-string"))>>,
                   <<"Bucket", RefTo("A")>> >>}}

BuildTemplates ==
    UnknownReferenceTemplates \cup ShapeTemplates \cup OrderTemplates \cup ExportTemplates
    \cup SubTemplates \cup MappingTemplates \cup ConditionEdgeTemplates \cup PseudoTemplates
    \cup SplitGuardTemplates

InitBuild ==
    /\ template \in BuildTemplates
    /\ pc = "extract_parameters"
    /\ idx = 1
    /\ para_name_to_id = EmptyMap
    /\ condition_name_to_id = EmptyMap
    /\ resource_name_to_id = EmptyMap
    /\ ir = EmptyIR
    /\ nodes = <<>>
    /\ edges = <<>>
    /\ node_id_to_name = EmptyMap
    /\ analysis_results = EmptyMap
    /\ visited = {}
    /\ stack = <<>>
    /\ todo = <<>>
    /\ found = <<>>

\* parse() and build_graph()
NextBuild ==
    \/ ExtractParameters
    \/ ExtractRule
    \/ RegisterConditions
    \/ ExtractCondition
    \/ ExtractResources
    \/ ExtractOutputs
    \/ CreateNodes
    \/ ProcessConditions
    \/ ProcessResources
    \/ ProcessOutputs

SpecBuild == InitBuild /\ [][NextBuild]_vars

(* The graphs the analyser is run on directly: every list of at most       *)
(* MaxEdges edges of GraphEdges (an edge may repeat), with the nodes its    *)
(* edges touch.                                                            *)

MaxEdges == 4

GraphEdges ==
    <<Edge("Cond.IsProd", "A", EDGE_CONDITION_EXISTENCE),
      Edge("A", "B", ""),
      Edge("B", "C", ""),
      Edge("C", "B", ""),
      Edge("B", "A", ""),
      Edge("B", "B", ""),
      Edge("Cond.IsProd", "B", EDGE_CONDITION_PROPERTY),
      Edge("Cond.IsProd", "C", EDGE_CONDITION_EXISTENCE),
      Edge("Cond.Other", "B", EDGE_CONDITION_PROPERTY),
      Edge("A", "C", ""),
      Edge("root", "Out.Out1", ""),
      Edge("C", "Out.Out1", ""),
      Edge("Out.Out1", "Cond.IsProd", "")>>

GraphNodes ==
    <<Node(IdOf("root", "root"), "root", "root"),
      Node(IdOf("cond", "Cond.IsProd"), "Cond.IsProd", "condition"),
      Node(IdOf("cond", "Cond.Other"), "Cond.Other", "condition"),
      Node(IdOf("res", "A"), "A", "resource"),
      Node(IdOf("res", "B"), "B", "resource"),
      Node(IdOf("res", "C"), "C", "resource"),
      Node(IdOf("out", "Out1"), "Out.Out1", "output")>>

\* the non-decreasing index lists of length n over lo..Len(GraphEdges)
RECURSIVE SortedIndexLists(_, _)
SortedIndexLists(n, lo) ==
    IF n = 0 THEN {<<>>}
    ELSE UNION {{<<i>> \o rest : rest \in SortedIndexLists(n - 1, i)} :
                   i \in lo..Len(GraphEdges)}

EdgeLists ==
    UNION {{[i \in 1..n |-> GraphEdges[l[i]]] : l \in SortedIndexLists(n, 1)} :
              n \in 0..MaxEdges}

Touched(es) == {"root"} \cup {es[i].from : i \in 1..Len(es)} \cup {es[i].to : i \in 1..Len(es)}

InitGraph ==
    /\ edges \in EdgeLists
    /\ nodes = SelectSeq(GraphNodes, LAMBDA n : n.name \in Touched(edges))
    /\ node_id_to_name = RegisterAll(EmptyMap,
                             [i \in 1..Len(nodes) |-> [name |-> nodes[i].id, id |-> nodes[i].name]])
    /\ ir = [EmptyIR EXCEPT !.conditions =
                [i \in 1..Len(nodes_by_type(nodes, "condition")) |->
                    ConditionRecord(nodes_by_type(nodes, "condition")[i].id,
                                    nodes_by_type(nodes, "condition")[i].name, NA, NA, NA)]]
    /\ template = [Parameters |-> NoSection, Mappings |-> NoSection, Rules |-> NoSection,
                   Conditions |-> NoSection, Resources |-> NoSection, Outputs |-> NoSection]
    /\ pc = "analyze_unused_parameters"
    /\ idx = 1
    /\ para_name_to_id = EmptyMap
    /\ condition_name_to_id = EmptyMap
    /\ resource_name_to_id = EmptyMap
    /\ analysis_results = EmptyMap
    /\ visited = {}
    /\ stack = <<>>
    /\ todo = <<>>
    /\ found = <<>>

NextGraph == Analyze

SpecGraph == InitGraph /\ [][NextGraph]_vars

\* the analyser is sequential code: a step that can be taken is taken
FairSpecGraph == SpecGraph /\ WF_vars(NextGraph)

-----------------------------------------------------------------------------
(* Properties of the graph build_graph returns and of the findings          *)
(* analyze() returns                                                       *)

\* build_graph has returned
GraphBuilt ==
    pc \in {"analyze_unused_parameters", "analyze_unused_conditions",
            "analyze_no_sourced_outputs", "analyze_no_sourced_conditions",
            "analyze_circular_dependencies", "analyze_cascading_provision_failure",
            "check_cascading_failure", "done"}

\* analyze() has returned
Analyzed == pc = "done"

NodeNames == {nodes[i].name : i \in 1..Len(nodes)}

HasEdge(from_node, to_node) ==
    \E i \in 1..Len(edges) : edges[i].from = from_node /\ edges[i].to = to_node

\* analysis_results.get(key, [])
Findings(key) == IF key \in DOMAIN analysis_results THEN analysis_results[key] ELSE <<>>

\* the positions at which a finding list names the node
Listings(key, name) == {i \in 1..Len(Findings(key)) : Findings(key)[i].name = name}

Listed(key, name) == Listings(key, name) # {}

\* the condition has an IR entry and every IR entry of it has ruled_para "NA"
NotRuleCondition(node) ==
    \A i \in 1..Len(ir.conditions) :
        ir.conditions[i].id = node.id => ir.conditions[i].ruled_para = NA

\* the nodes a condition guards: targets of its condition-existence and
\* condition-property edges
Guarded(condition_name) ==
    {edges[i].to : i \in {j \in 1..Len(edges) :
                             /\ edges[j].from = condition_name
                             /\ edges[j].edge_type \in {EDGE_CONDITION_EXISTENCE,
                                                        EDGE_CONDITION_PROPERTY}}}

\* the nodes reachable from one of `from` along non-self-loop edges through
\* nodes outside `blocked`, as a least fixed point
RECURSIVE ReachableOutside(_, _, _)
ReachableOutside(reached, from, blocked) ==
    LET more == {edges[i].to : i \in {j \in 1..Len(edges) :
                                         /\ edges[j].from \in from \cup reached
                                         /\ edges[j].from # edges[j].to
                                         /\ edges[j].to \notin blocked}}
    IN IF more \subseteq reached THEN reached
       ELSE ReachableOutside(reached \cup more, from, blocked)

\* the dependents the cascading findings name for a gated resource and a condition
ReportedDependents(gated_resource, condition_name) ==
    LET fs == Findings("cascading_provisioning_failures")
    IN {fs[i].dependent_resource : i \in {j \in 1..Len(fs) :
                                            /\ fs[j].gated_resource = gated_resource
                                            /\ fs[j].condition = condition_name}}

\* C1: after build_graph every node other than root is the target of at
\* least one edge, whatever the node's type and references
C1_EveryNodeHasIncomingEdge ==
    GraphBuilt =>
        \A i \in 1..Len(nodes) :
            nodes[i].name # "root" => \E j \in 1..Len(edges) : edges[j].to = nodes[i].name

\* C1's case: a built graph where B has incoming edges and none from root,
\* while a rule-condition, a parameter and an output are nodes too
C1_Witness ==
    /\ GraphBuilt
    /\ {"B", "Cond.R1", "Env", "Out.Out1"} \subseteq NodeNames
    /\ ~HasEdge("root", "B")
    /\ HasEdge("A", "B")

\* C2: after build_graph the from and the to of every edge are names of
\* nodes of the graph, also for the edges made from DependsOn and Condition
\* attributes that name a filtered resource or an undeclared condition
C2_EdgeEndpointsAreNodes ==
    GraphBuilt =>
        \A i \in 1..Len(edges) : edges[i].from \in NodeNames /\ edges[i].to \in NodeNames

\* C3: for every condition-existence edge C -> R the cascading findings for
\* (R, C) name exactly the nodes reachable from R along non-self-loop edges
\* through nodes that have no condition-existence or condition-property edge
\* from C
C3_CascadingFindingsAreUnguardedDescendants ==
    Analyzed =>
        \A i \in 1..Len(edges) :
            edges[i].edge_type = EDGE_CONDITION_EXISTENCE =>
                ReportedDependents(edges[i].to, edges[i].from)
                    = ReachableOutside({}, {edges[i].to}, Guarded(edges[i].from))

\* C3's case: A is gated by Cond.IsProd, its child B is guarded at property
\* level and its child C is not, and C is the one dependent reported
C3_Witness ==
    /\ Analyzed
    /\ \E i \in 1..Len(edges) : edges[i] = Edge("Cond.IsProd", "A", EDGE_CONDITION_EXISTENCE)
    /\ HasEdge("A", "B")
    /\ "B" \in Guarded("Cond.IsProd")
    /\ ReportedDependents("A", "Cond.IsProd") = {"C"}

\* the template gates A by the declared condition IsProd and B refers to A
\* inside a property whose value is If[IsProd, ...]
GatedAndGuarded ==
    /\ DictGet(DictGet(template.Resources, "A"), "Condition") = Str("IsProd")
    /\ DictGet(DictGet(DictGet(template.Resources, "B"), "Properties"), "Bucket")
           = IfOf("IsProd", RefTo("A"), RefTo("Env"))

\* C4: end to end, when A carries Condition C and B refers to A inside a
\* property whose value is If[C, ...], the graph has the condition-property
\* edge Cond.C -> B, no cascading finding (A, B, Cond.C) is reported, and
\* every dependent reported for (Cond.C, A) is reachable from A without
\* passing through B
C4_PropertyGuardStopsCascade ==
    /\ (GraphBuilt /\ GatedAndGuarded) =>
           \E i \in 1..Len(edges) :
               edges[i] = Edge("Cond.IsProd", "B", EDGE_CONDITION_PROPERTY)
    /\ (Analyzed /\ GatedAndGuarded) =>
           /\ "B" \notin ReportedDependents("A", "Cond.IsProd")
           /\ ReportedDependents("A", "Cond.IsProd") \subseteq ReachableOutside({}, {"A"}, {"B"})

\* C4's case: the analysis has returned for such a template, in which the
\* output Out1 depends on B
C4_Witness ==
    /\ Analyzed
    /\ GatedAndGuarded
    /\ HasEdge("A", "B")
    /\ HasEdge("B", "Out.Out1")

\* C5: the cascading-failure analysis terminates on every finite graph,
\* self-loops and dependency cycles included: analyze() returns
C5_CascadingAnalysisTerminates == <>Analyzed

\* C5's case: the analysis has returned on a graph where the gated resource A
\* is on the cycle A -> B -> A and B has a self-loop
C5_Witness ==
    /\ Analyzed
    /\ \E i \in 1..Len(edges) : edges[i] = Edge("Cond.IsProd", "A", EDGE_CONDITION_EXISTENCE)
    /\ HasEdge("A", "B")
    /\ HasEdge("B", "A")
    /\ HasEdge("B", "B")
    /\ ReportedDependents("A", "Cond.IsProd") = {"B"}

\* C6: a parameter node is listed in unused_parameters if and only if no
\* edge has it as source, so no listed node has an outgoing edge
C6_UnusedParametersHaveNoOutgoingEdge ==
    Analyzed =>
        /\ \A i \in 1..Len(nodes) :
               nodes[i].type = "parameter" =>
                   (Listed("unused_parameters", nodes[i].name)
                        <=> ~(\E j \in 1..Len(edges) : edges[j].from = nodes[i].name))
        /\ \A k \in 1..Len(Findings("unused_parameters")) :
               ~(\E j \in 1..Len(edges) :
                     edges[j].from = Findings("unused_parameters")[k].name)

\* C6's case: Env is listed while the pseudo parameter AWS.Region, which a
\* condition refers to, is not
C6_Witness ==
    /\ Analyzed
    /\ Listed("unused_parameters", "Env")
    /\ "AWS.Region" \in NodeNames
    /\ ~Listed("unused_parameters", "AWS.Region")

C9_NoSourcedConditionsAreUnruledRootChildren ==
    Analyzed =>
        \A i \in 1..Len(nodes) :
            nodes[i].type = "condition" =>
                (Listed("no_sourced_conditions", nodes[i].name)
                     <=> HasEdge("root", nodes[i].name) /\ NotRuleCondition(nodes[i]))

\* C9's case: root -> Cond.R1 for a rule-condition that rules a parameter,
\* not listed, and root -> Cond.IsProd for an ordinary condition, listed
C9_Witness ==
    /\ Analyzed
    /\ \E i \in 1..Len(ir.conditions) :
           ir.conditions[i].name = "Cond.R1" /\ ir.conditions[i].ruled_para # NA
    /\ HasEdge("root", "Cond.R1")
    /\ ~Listed("no_sourced_conditions", "Cond.R1")
    /\ HasEdge("root", "Cond.IsProd")
    /\ Listed("no_sourced_conditions", "Cond.IsProd")

\* C10: after build_graph, for every condition C from a Rule with a non-NA
\* ruled_para and every parameter P it rules, the graph holds an edge C -> P
\* and no edge root -> P
C10_RuledParameterEdgeRewritten ==
    GraphBuilt =>
        \A i \in 1..Len(ir.conditions) :
            ir.conditions[i].ruled_para # NA =>
                \A k \in 1..Len(ir.conditions[i].ruled_para) :
                    LET P == MapGet(node_id_to_name, ir.conditions[i].ruled_para[k])
                    IN HasEdge(ir.conditions[i].name, P) /\ ~HasEdge("root", P)

\* the name lists of the reported cycles
ReportedCycles ==
    [i \in 1..Len(Findings("circular_dependencies")) |->
        Findings("circular_dependencies")[i].cycle]

\* first and last name equal, the names before the last pairwise distinct,
\* every consecutive pair an edge of the graph
IsGraphCycle(cycle) ==
    /\ Len(cycle) >= 2
    /\ cycle[1] = cycle[Len(cycle)]
    /\ \A i, j \in 1..(Len(cycle) - 1) : i # j => cycle[i] # cycle[j]
    /\ \A i \in 1..(Len(cycle) - 1) : HasEdge(cycle[i], cycle[i + 1])

\* C11: every entry of circular_dependencies is a cycle of the graph: its
\* first and last names are equal, the names before the last are pairwise
\* distinct, and each consecutive pair of names is an edge
C11_ReportedCyclesAreGraphCycles ==
    Analyzed => \A i \in 1..Len(ReportedCycles) : IsGraphCycle(ReportedCycles[i])

\* C11's case: a cycle the search entered from outside (A -> B -> C -> B) and
\* a self-loop are both reported
C11_Witness ==
    /\ Analyzed
    /\ HasEdge("A", "B")
    /\ \E i \in 1..Len(ReportedCycles) :
           Len(ReportedCycles[i]) = 3 /\ "A" \notin Range(ReportedCycles[i])
    /\ \E i \in 1..Len(ReportedCycles) : ReportedCycles[i] = <<"B", "B">>

\* analyze_circular_dependencies, lines 280-286, run to the end in every
\* order in which the loop over the set all_nodes can meet the names: the
\* lists circular_dependencies can hold when the loop ends
RECURSIVE CycleSearches(_, _, _, _)
CycleSearches(es, all_nodes, vis, cycles) ==
    IF all_nodes \subseteq vis THEN {cycles}
    ELSE UNION {LET r == dfs_cycle_detection(es, node_name, <<>>, NewSearch(vis), {})
                IN CycleSearches(es, all_nodes, r.visited, cycles \o r.cycles) :
                   node_name \in all_nodes \ vis}

\* the values of the finding circular_dependencies that a run of the
\* analyzer on the present graph can return
RerunCircularDependencies ==
    {formatted_cycles(nodes, cycles) : cycles \in CycleSearches(edges, NodeNames, {}, <<>>)}

\* C12: running the analyzer again on the same graph and IR yields the same
\* circular_dependencies entries in the same order, whatever order the cycle
\* detector meets its DFS start nodes in
C12_RerunGivesIdenticalFindings ==
    Analyzed =>
        \A rerun \in RerunCircularDependencies : rerun = Findings("circular_dependencies")

\* parse() has returned the IR
Parsed == pc \notin {"extract_parameters", "extract_rules", "extract_conditions",
                     "extract_outputs", "parse_error"}

\* the ids of an id list ("NA" holds none)
IdsIn(list) == IF list = NA THEN {} ELSE Range(list)

\* the ids held by the reference fields of the IR
ReferenceIds ==
    UNION {IdsIn(ir.conditions[i].ruled_para) \cup IdsIn(ir.conditions[i].depend_para)
           \cup IdsIn(ir.conditions[i].depend_cond) : i \in 1..Len(ir.conditions)}
    \cup UNION {UNION {IdsIn(ir.resources[i].properties.units[j].resource_refs)
                       \cup IdsIn(ir.resources[i].properties.units[j].parameter_refs)
                       \cup IdsIn(ir.resources[i].properties.units[j].depend_conditions) :
                          j \in 1..Len(ir.resources[i].properties.units)} :
                   i \in 1..Len(ir.resources)}
    \cup UNION {IdsIn(ir.outputs[i].source_resource) \cup IdsIn(ir.outputs[i].source_parameter)
                \cup IdsIn(ir.outputs[i].depend_conditions)
                \cup IdsIn(ir.outputs[i].value.depend_conditions)
                \cup IdsIn(ir.outputs[i].export_name.depend_para)
                \cup IdsIn(ir.outputs[i].export_name.depend_resource) :
                   i \in 1..Len(ir.outputs)}

\* the ids of the name-to-id maps
DeclaredIds ==
    {para_name_to_id[n] : n \in DOMAIN para_name_to_id}
    \cup {condition_name_to_id[n] : n \in DOMAIN condition_name_to_id}
    \cup {resource_name_to_id[n] : n \in DOMAIN resource_name_to_id}

\* C13: a reference to a name that is in no name-to-id map is dropped in
\* every section (rule assertions, rule conditions, condition bodies,
\* resource properties, outputs): the IR build raises no error, and the
\* reference fields of the IR hold ids of the maps only
C13_UnknownReferenceSilentlyDropped ==
    template \in UnknownReferenceTemplates =>
        /\ pc # "parse_error"
        /\ Parsed => ReferenceIds \subseteq DeclaredIds

\* the sections in which the unknown reference is dropped: a resource
\* property and an output value
C13_DroppedInResourcesAndOutputs ==
    /\ template \in UnknownReferenceTemplates
    /\ Parsed
    /\ \/ /\ template.Resources = ResourcesWith(RefTo("Missing"))
          /\ ir.resources[2].properties.units[1].resource_refs = NA
       \/ /\ template.Outputs = Section("Out1", Dict(<< <<"Value", RefTo("Missing")>> >>))
          /\ ir.outputs[1].source_resource = NA

\* C14: in the cascading-failure findings a descendant D is reported at most
\* once per starting pair (C, R): no triple (R, D, C) occurs twice, also when
\* D is reachable from R through several children or through parallel edges
C14_DescendantReportedOncePerStart ==
    Analyzed =>
        LET fs == Findings("cascading_provisioning_failures")
        IN \A i, j \in 1..Len(fs) : fs[i] = fs[j] => i = j

\* the sources of the default (data) edges into a node, root aside
DataSources(name) ==
    {edges[i].from : i \in {j \in 1..Len(edges) :
                               /\ edges[j].to = name
                               /\ edges[j].edge_type = ""
                               /\ edges[j].from # "root"}}

\* C15: build_graph adds root -> output only when source_resource,
\* source_parameter, export_name.depend_para and export_name.depend_resource
\* together yield no edge: an output that has a data source has no incoming
\* edge from root
C15_RootOutputEdgeOnlyWithoutDataSource ==
    GraphBuilt =>
        \A i \in 1..Len(ir.outputs) :
            HasEdge("root", ir.outputs[i].name) => DataSources(ir.outputs[i].name) = {}

\* the part of C15 the code keeps: an output whose Value references a
\* resource or a parameter has no edge from root
C15_ValueSourcedOutputHasNoRootEdge ==
    /\ GraphBuilt
    /\ ir.outputs[1].source_resource # NA
    /\ ir.outputs[1].export_name.depend_para # <<>>
    /\ ~HasEdge("root", "Out.Out1")

\* the sources of the edges into a node, root aside
NonRootSources(name) ==
    {edges[i].from : i \in {j \in 1..Len(edges) : edges[j].to = name /\ edges[j].from # "root"}}

\* C16: build_graph adds root -> resource iff the resource got no incoming
\* edge from its DependsOn attribute, its Condition attribute or any of its
\* properties: a resource with a Condition or DependsOn edge has no edge
\* from root
C16_RootResourceEdgeIffNoIncomingEdge ==
    GraphBuilt =>
        \A i \in 1..Len(ir.resources) :
            HasEdge("root", ir.resources[i].name) <=> NonRootSources(ir.resources[i].name) = {}

\* the part of C16 the code keeps: a resource with a property edge has no
\* edge from root, a resource with no attribute and no reference has one
C16_PropertySourcedResourceHasNoRootEdge ==
    /\ GraphBuilt
    /\ HasEdge("A", "B") /\ ~HasEdge("root", "B")
    /\ NonRootSources("A") = {} /\ HasEdge("root", "A")

\* the rotations of a sequence
Rotations(s) ==
    {SubSeq(s, k, Len(s)) \o SubSeq(s, 1, k - 1) : k \in 1..Len(s)}

\* two cycles describe the same cyclic sequence: without the repeated last
\* name, one is a rotation of the other
SameLoop(c1, c2) ==
    /\ Len(c1) = Len(c2)
    /\ SubSeq(c2, 1, Len(c2) - 1) \in Rotations(SubSeq(c1, 1, Len(c1) - 1))

\* C17: the reported cycles are deduplicated up to rotation: no two entries
\* describe the same cyclic sequence started at a different node, and no
\* entry occurs twice when parallel edges close the same loop
C17_ReportedCyclesDistinctUpToRotation ==
    Analyzed =>
        \A i, j \in 1..Len(ReportedCycles) :
            SameLoop(ReportedCycles[i], ReportedCycles[j]) => i = j

\* C17's case: the edge C -> B is there twice and closes the loop B -> C -> B
\* twice in one search, which is reported once
C17_Witness ==
    /\ Analyzed
    /\ Cardinality({i \in 1..Len(edges) : edges[i].from = "C" /\ edges[i].to = "B"}) = 2
    /\ HasEdge("B", "C")
    /\ ReportedCycles = << <<"B", "C", "B">> >>

\* the types of the nodes of a cycle
CycleTypes(cycle) ==
    {nodes[i].type : i \in {j \in 1..Len(nodes) : nodes[j].name \in Range(cycle)}}

\* the cycle_type of a cycle whose nodes have the given types: pure_<T>_cycle
\* for the single type T, else mixed_cycle_ and the sorted types joined by _
ExpectedCycleType(types) ==
    CASE types = {"resource"} -> "pure_resource_cycle"
      [] types = {"condition"} -> "pure_condition_cycle"
      [] types = {"condition", "resource"} -> "mixed_cycle_condition_resource"
      [] types = {"condition", "output"} -> "mixed_cycle_condition_output"
      [] types = {"condition", "output", "resource"} -> "mixed_cycle_condition_output_resource"
      [] OTHER -> "<no such cycle in these graphs>"

\* C18: for every reported cycle, cycle_length is the number of distinct
\* nodes in it and the size of nodes_involved, and cycle_type is
\* pure_<T>_cycle when all its nodes have the type T and mixed_cycle_ with
\* the sorted distinct types joined by _ otherwise; two resources that
\* reference each other give exactly one cycle, of type pure_resource_cycle
C18_CycleLengthAndType ==
    Analyzed =>
        LET fs == Findings("circular_dependencies")
        IN /\ \A i \in 1..Len(fs) :
                  /\ fs[i].cycle_length = Cardinality(Range(fs[i].cycle))
                  /\ fs[i].cycle_length = Cardinality(fs[i].nodes_involved)
                  /\ fs[i].cycle_type = ExpectedCycleType(CycleTypes(fs[i].cycle))
           /\ Range(edges) = {Edge("A", "B", ""), Edge("B", "A", "")} =>
                  Len(fs) = 1 /\ fs[1].cycle_type = "pure_resource_cycle"

\* C18's case: a cycle through a condition, a resource and an output is
\* reported
C18_Witness ==
    /\ Analyzed
    /\ \E i \in 1..Len(Findings("circular_dependencies")) :
           /\ Findings("circular_dependencies")[i].cycle_length = 3
           /\ Findings("circular_dependencies")[i].cycle_type
                  = "mixed_cycle_condition_output_resource"

\* C18's second case: the resources A and B reference each other and one
\* cycle is reported
TwoResourceCycleReported ==
    /\ Analyzed
    /\ Range(edges) = {Edge("A", "B", ""), Edge("B", "A", "")}
    /\ Len(Findings("circular_dependencies")) = 1

\* a section with its declarations in the opposite order
Reversed(section) ==
    Dict([i \in 1..Len(section.items) |-> section.items[Len(section.items) + 1 - i]])

\* the document with its conditions and its resources declared in the
\* opposite order
Mirror(t) == [t EXCEPT !.Conditions = Reversed(@), !.Resources = Reversed(@)]

\* parse() on the document t, run to its end: the IR, or raised
ParseOf(t) ==
    LET parameters == extract_parameters(t)
        para_map == RegisterAll(EmptyMap, parameters)
        rule(i) ==
            LET rule_name == CFN_CONDITION_PREFIX \o t.Rules.items[i][1]
                ruled == RuledNames(t.Rules.items[i][2])
                depend == RuleDependNames(t.Rules.items[i][2])
            IN IF Raises(ruled) \/ Raises(depend)
                  \/ KeyErrorIn(ruled, para_map) \/ KeyErrorIn(depend, para_map)
               THEN [raised |-> TRUE]
               ELSE [raised |-> FALSE,
                     record |-> ConditionRecord(IdOf("rule", rule_name), rule_name,
                                    CHOOSE l \in IdListsOf(ruled, para_map) : TRUE,
                                    CHOOSE l \in IdListsOf(depend, para_map) : TRUE, NA)]
        cond_map == RegisterAll(EmptyMap,
                        [i \in 1..Len(t.Conditions.items) |->
                            LET name == CFN_CONDITION_PREFIX \o t.Conditions.items[i][1]
                            IN [name |-> name, id |-> IdOf("cond", name)]])
        condition(i) ==
            LET condition_name == CFN_CONDITION_PREFIX \o t.Conditions.items[i][1]
                condition_data == t.Conditions.items[i][2]
                depend == CondDependNames(condition_data)
            IN IF Raises(depend) \/ KeyErrorIn(depend, para_map)
               THEN [raised |-> TRUE]
               ELSE [raised |-> FALSE,
                     record |-> ConditionRecord(cond_map[condition_name], condition_name, NA,
                                    CHOOSE l \in IdListsOf(depend, para_map) : TRUE,
                                    CondDependCond(condition_data, cond_map))]
        resources == extract_resources(t, para_map, cond_map)
        outputs == extract_outputs(t, ResourceIds(t), para_map, cond_map)
    IN IF \/ \E i \in 1..Len(t.Rules.items) : rule(i).raised
          \/ \E i \in 1..Len(t.Conditions.items) : condition(i).raised
          \/ AnyRaised(resources) \/ AnyRaised(outputs)
       THEN [raised |-> TRUE, ir |-> EmptyIR]
       ELSE [raised |-> FALSE,
             ir |-> [parameters |-> parameters,
                     conditions |-> [i \in 1..Len(t.Rules.items) |-> rule(i).record]
                                    \o [i \in 1..Len(t.Conditions.items) |->
                                           condition(i).record],
                     resources |-> DropRaised(resources),
                     outputs |-> DropRaised(outputs)]]

\* build_graph() on an IR, run to its end: the edges
BuildGraphOf(parsed) ==
    LET parameters == RenamedParameters(parsed.parameters)
        ns == <<Node(IdOf("root", "root"), "root", "root")>>
              \o NodesOf(parameters, "parameter") \o NodesOf(parsed.conditions, "condition")
              \o NodesOf(parsed.resources, "resource") \o NodesOf(parsed.outputs, "output")
        id2name == RegisterAll(EmptyMap,
                       [i \in 1..Len(ns) |-> [name |-> ns[i].id, id |-> ns[i].name]])
    IN OutputEdges(
           ResourceEdges(
               ConditionEdges(RootParameterEdges(parameters), id2name, parsed.conditions),
               id2name, parsed.resources),
           id2name, parsed.outputs)

\* what the reference fields of the conditions and of the resource
\* properties resolve to, by name
ResolvedReferences(parsed) ==
    {<<parsed.conditions[i].name, IdsIn(parsed.conditions[i].depend_para),
       IdsIn(parsed.conditions[i].depend_cond)>> : i \in 1..Len(parsed.conditions)}
    \cup UNION {{<<parsed.resources[i].name, parsed.resources[i].properties.units[j].name,
                   IdsIn(parsed.resources[i].properties.units[j].resource_refs),
                   IdsIn(parsed.resources[i].properties.units[j].parameter_refs)>> :
                     j \in 1..Len(parsed.resources[i].properties.units)} :
                   i \in 1..Len(parsed.resources)}

\* C19: reference resolution does not depend on the order of declaration: a
\* condition naming a condition declared later and a resource property
\* referencing a resource declared later resolve to the same ids, and the
\* graph gets the same set of edges, as with the declarations in the
\* opposite order
C19_ResolutionIndependentOfDeclarationOrder ==
    GraphBuilt =>
        LET mirror == ParseOf(Mirror(template))
        IN /\ ~mirror.raised
           /\ ResolvedReferences(ir) = ResolvedReferences(mirror.ir)
           /\ Range(edges) = Range(BuildGraphOf(mirror.ir))

\* C19's case: Other names the condition IsProd declared after it, a
\* property of A references the resource B declared after it, and both
\* references gave an edge
C19_Witness ==
    /\ GraphBuilt
    /\ template.Conditions.items[1][1] = "Other"
    /\ template.Resources.items[1][1] = "A"
    /\ HasEdge("Cond.IsProd", "Cond.Other")
    /\ HasEdge("B", "A")

\* the misshapen function of a document of ShapeTemplates left no reference
\* in the IR
NoReferenceEmitted ==
    /\ template.Resources # BaseTemplate.Resources =>
           /\ ir.resources[2].properties.units[1].resource_refs = NA
           /\ ir.resources[2].properties.units[1].parameter_refs = NA
           /\ ir.resources[2].properties.units[1].depend_conditions = NA
    /\ template.Conditions # BaseTemplate.Conditions =>
           ir.conditions[1].depend_para = NA

\* C20: an intrinsic function whose value has an unexpected shape (GetAtt
\* neither list nor string, FindInMap not a list, Sub given a one-element
\* list or a list whose second element is no mapping, Join with fewer than
\* two elements, If with fewer than three elements) is ignored: no error is
\* raised and no reference is emitted
C20_MisshapenFunctionSilentlyIgnored ==
    template \in ShapeTemplates =>
        /\ pc # "parse_error"
        /\ Parsed => NoReferenceEmitted

\* the shapes that are ignored: GetAtt of a number, FindInMap of a string,
\* Join of a one-element list
C20_IgnoredShapes ==
    /\ template \in {[BaseTemplate EXCEPT !.Resources = ResourcesWith(v)] :
                        v \in {Fn("GetAtt", Other), Fn("FindInMap", Str("RegionMap")),
                               Fn("Join", List(<<Str(",")>>))}}
    /\ Parsed
    /\ NoReferenceEmitted

\* the value of the property Bucket of resource B in the document
BucketValue == DictGet(DictGet(template.Resources.items[2][2], "Properties"), "Bucket")

\* what Sub [str, bindings] is to emit: for each binding whose key occurs in
\* str the references of its value, then the names of str that are no key
\* of bindings, truncated at the first '.'
ShadowedSubRefs(value) ==
    LET matches == SubMatches(value.items[1].s)
        bindings == value.items[2].items
        bound == {bindings[i][1] : i \in 1..Len(bindings)}
    IN Concat([i \in 1..Len(bindings) |->
                  IF SeqContains(matches, bindings[i][1])
                  THEN _extract_refs_from_dict(bindings[i][2]) ELSE <<>>])
       \o SubEmit(SelectSeq(matches, LAMBDA name : name \notin bound))

\* C21: for Sub given [str, bindings], a name that occurs in str and is a
\* key of bindings is never emitted as a reference, however many times it
\* occurs in str: the references of its bound value are emitted instead, and
\* the names absent from bindings are emitted truncated at the first '.'
C21_BoundSubNameNeverEmitted ==
    template \in SubTemplates /\ Parsed =>
        /\ _extract_refs_from_dict(BucketValue) = ShadowedSubRefs(DictGet(BucketValue, "Sub"))
        /\ IdOf("param", "id") \notin IdsIn(ir.resources[2].properties.units[1].parameter_refs)

\* the cases of C21 the code keeps: a bound name that occurs once gives the
\* reference of its value only, an unbound name is cut at the '.'
C21_SingleOccurrenceShadowed ==
    /\ template \in SubTemplates
    /\ Parsed
    /\ \/ /\ SubMatches(DictGet(BucketValue, "Sub").items[1].s) = <<"id">>
          /\ ir.resources[2].properties.units[1].resource_refs = <<IdOf("res", "A")>>
          /\ ir.resources[2].properties.units[1].parameter_refs = NA
       \/ /\ SubMatches(DictGet(BucketValue, "Sub").items[1].s) = <<"A.Arn">>
          /\ ir.resources[2].properties.units[1].resource_refs = <<IdOf("res", "A")>>


\* the ids of the resource, parameter and condition records of the IR
ResourceRecordIds == {ir.resources[i].id : i \in 1..Len(ir.resources)}
ParameterRecordIds == {ir.parameters[i].id : i \in 1..Len(ir.parameters)}
ConditionRecordIds == {ir.conditions[i].id : i \in 1..Len(ir.conditions)}

EdgesOfType(edge_type) ==
    {<<edges[i].from, edges[i].to>> : i \in {j \in 1..Len(edges) : edges[j].edge_type = edge_type}}

\* <<C, X>> for every resource X of the IR with the attribute Condition C and
\* every output X with the attribute Condition C
DeclaredGates ==
    {<<DictGet(ir.resources[i].arguments, "condition").s, ir.resources[i].name>> :
        i \in {j \in 1..Len(ir.resources) :
                  /\ ir.resources[j].arguments.k = "dict"
                  /\ DictGet(ir.resources[j].arguments, "condition") # Absent}}
    \cup UNION {{<<node_id_to_name[id], ir.outputs[i].name>> :
                    id \in IdsIn(ir.outputs[i].depend_conditions)} : i \in 1..Len(ir.outputs)}

\* <<C, X>> for every resource X with a property that has C in its
\* depend_conditions and every output X whose Value has
PropertyGuards ==
    UNION {UNION {{<<node_id_to_name[id], ir.resources[i].name>> :
                      id \in IdsIn(ir.resources[i].properties.units[j].depend_conditions)} :
                     j \in 1..Len(ir.resources[i].properties.units)} :
              i \in 1..Len(ir.resources)}
    \cup UNION {{<<node_id_to_name[id], ir.outputs[i].name>> :
                    id \in IdsIn(ir.outputs[i].value.depend_conditions)} : i \in 1..Len(ir.outputs)}

ConditionNames == {ir.conditions[i].name : i \in 1..Len(ir.conditions)}

\* the first three parts of C23: the three edge types, and the typed edges
\* are those of the declared gates and of the property guards
TypedEdgesAsDeclared ==
    /\ \A i \in 1..Len(edges) :
           edges[i].edge_type \in {"", EDGE_CONDITION_EXISTENCE, EDGE_CONDITION_PROPERTY}
    /\ EdgesOfType(EDGE_CONDITION_EXISTENCE) = DeclaredGates
    /\ EdgesOfType(EDGE_CONDITION_PROPERTY) = PropertyGuards

\* C23: every edge has one of the three edge types, a condition-existence
\* edge C -> X exists exactly when resource or output X declares Condition C,
\* a condition-property edge C -> X exactly when a property of resource X or
\* the Value of output X has C in its depend_conditions, and the source of
\* every typed edge is the name of a condition
C23_TypedEdgesStartAtConditions ==
    GraphBuilt =>
        /\ TypedEdgesAsDeclared
        /\ \A i \in 1..Len(edges) : edges[i].edge_type # "" => edges[i].from \in ConditionNames

\* the part of C23 the code keeps: typed edges of both kinds to a resource
\* and to an output, as declared, all of them from declared conditions
C23_TypedEdgesOfDeclaredConditions ==
    /\ GraphBuilt
    /\ TypedEdgesAsDeclared
    /\ {<<"Cond.IsProd", "A">>, <<"Cond.IsProd", "Out.Out1">>}
           \subseteq EdgesOfType(EDGE_CONDITION_EXISTENCE)
    /\ {<<"Cond.IsProd", "B">>, <<"Cond.IsProd", "Out.Out1">>}
           \subseteq EdgesOfType(EDGE_CONDITION_PROPERTY)
    /\ \A i \in 1..Len(edges) : edges[i].edge_type # "" => edges[i].from \in ConditionNames


\* the pseudo-parameter records of the IR as the parser built them, before
\* _create_nodes renames them
PseudoParameters ==
    {p \in Range(extract_parameters(template)) : p.type = "pseudo-parameter"}

\* the names of the conditions, resources and outputs of the IR that hold the
\* id in depend_para, in the parameter_refs of a property, in source_parameter
ReferrersOf(id) ==
    {ir.conditions[i].name : i \in {j \in 1..Len(ir.conditions) :
                                       id \in IdsIn(ir.conditions[j].depend_para)}}
    \cup {ir.resources[i].name :
             i \in {j \in 1..Len(ir.resources) :
                       \E u \in 1..Len(ir.resources[j].properties.units) :
                           id \in IdsIn(ir.resources[j].properties.units[u].parameter_refs)}}
    \cup {ir.outputs[i].name : i \in {j \in 1..Len(ir.outputs) :
                                         id \in IdsIn(ir.outputs[j].source_parameter)}}

\* C24: the substitution of '::' by '.' changes names only: the node of a
\* pseudo-parameter has the substituted name and the id of its IR parameter,
\* and every edge that stems from a reference to the pseudo-parameter starts
\* at the substituted name, the name of that node; no edge uses the name
\* with '::'
C24_PseudoParameterNodeKeepsIdEdgesUseNodeName ==
    GraphBuilt =>
        \A p \in PseudoParameters :
            /\ \E i \in 1..Len(nodes) :
                   nodes[i] = Node(p.id, ReplaceColons(p.name), "parameter")
            /\ \E i \in 1..Len(ir.parameters) :
                   ir.parameters[i].id = p.id /\ ir.parameters[i].name = ReplaceColons(p.name)
            /\ \A referrer \in ReferrersOf(p.id) : HasEdge(ReplaceColons(p.name), referrer)
            /\ \A i \in 1..Len(edges) : p.name \notin {edges[i].from, edges[i].to}

\* AWS::Region referenced by a condition, a resource property and an output:
\* the node AWS.Region and the three edges from it
C24_Witness ==
    /\ GraphBuilt
    /\ \E p \in PseudoParameters : p.name = "AWS::Region" /\ p.id = IdOf("pseudo", "AWS::Region")
    /\ ReferrersOf(IdOf("pseudo", "AWS::Region")) = {"Cond.IsProd", "B", "Out.Out1"}
    /\ "AWS.Region" \in NodeNames /\ "AWS::Region" \notin NodeNames
    /\ HasEdge("AWS.Region", "Cond.IsProd") /\ HasEdge("AWS.Region", "B")
    /\ HasEdge("AWS.Region", "Out.Out1")


\* the key each step of analyze() may set in the findings
OwnKey ==
    CASE pc = "analyze_unused_parameters" -> "unused_parameters"
      [] pc = "analyze_unused_conditions" -> "unused_conditions"
      [] pc = "analyze_no_sourced_outputs" -> "no_sourced_outputs"
      [] pc = "analyze_no_sourced_conditions" -> "no_sourced_conditions"
      [] pc = "analyze_circular_dependencies" -> "circular_dependencies"
      [] OTHER -> "cascading_provisioning_failures"

\* C25: every step of analyze(), from the first of the six analyses to its
\* return, leaves the node list, the edge list and every IR record as they
\* were, keeps every finding already stored, and adds at most the key of the
\* analysis that is running
C25_AnalyzeLeavesGraphAndIRUnchanged ==
    [][GraphBuilt =>
           /\ nodes' = nodes /\ edges' = edges /\ ir' = ir
           /\ \A key \in DOMAIN analysis_results :
                  key \in DOMAIN analysis_results'
                  /\ analysis_results'[key] = analysis_results[key]
           /\ DOMAIN analysis_results' \ DOMAIN analysis_results \subseteq {OwnKey}]_vars

\* analyze() has returned findings of three analyses or more, and the edge
\* list is still the one build_graph computes from the IR
C25_Witness ==
    /\ Analyzed
    /\ Cardinality(DOMAIN analysis_results) >= 3
    /\ edges # <<>>
    /\ Range(edges) = Range(BuildGraphOf([ir EXCEPT !.parameters = extract_parameters(template)]))


\* the names one edge leads to from a name of the set
SuccessorsOf(names) ==
    {edges[i].to : i \in {j \in 1..Len(edges) : edges[j].from \in names}}

\* the names reachable from the set along edges, the set included
RECURSIVE ReachableFrom(_)
ReachableFrom(names) ==
    IF SuccessorsOf(names) \subseteq names THEN names
    ELSE ReachableFrom(names \cup SuccessorsOf(names))

\* the graph has a directed cycle: some name is reachable from itself along
\* one edge or more (a self-loop is a cycle)
HasDirectedCycle ==
    \E i \in 1..Len(edges) : edges[i].from \in ReachableFrom({edges[i].to})

\* analyze_circular_dependencies has returned
CyclesAnalyzed ==
    pc \in {"analyze_cascading_provision_failure", "check_cascading_failure", "done"}

\* C26: once analyze_circular_dependencies has returned, the findings hold
\* the key circular_dependencies if and only if the graph has a directed
\* cycle, whichever node each search starts from
C26_CyclesReportedIffGraphHasCycle ==
    CyclesAnalyzed =>
        ("circular_dependencies" \in DOMAIN analysis_results <=> HasDirectedCycle)

\* a self-loop reported
C26_SelfLoopReported ==
    /\ CyclesAnalyzed
    /\ \E i \in 1..Len(edges) : edges[i].from = edges[i].to
    /\ \A i \in 1..Len(edges) : edges[i].from # edges[i].to => edges[i].from = "root"
    /\ "circular_dependencies" \in DOMAIN analysis_results


\* the parameters of the IR whose id is in the ruled_para of the condition
RuledBy(condition) ==
    {ir.parameters[i] : i \in {j \in 1..Len(ir.parameters) :
                                  ir.parameters[j].id \in IdsIn(condition.ruled_para)}}

NodeTypesOf(name) == {nodes[i].type : i \in {j \in 1..Len(nodes) : nodes[j].name = name}}

\* C28: in every cascading finding of a graph built from an IR the
\* gated_resource is the target of a condition-existence edge from the
\* finding's condition, and the dependent_resource is a resource or an
\* output node other than the gated_resource, never root, a parameter or a
\* condition
C28_CascadingFindingNamesGatedAndDependent ==
    \A i \in 1..Len(Findings("cascading_provisioning_failures")) :
        LET finding == Findings("cascading_provisioning_failures")[i]
        IN /\ \E j \in 1..Len(edges) :
                  edges[j] = Edge(finding.condition, finding.gated_resource,
                                  EDGE_CONDITION_EXISTENCE)
           /\ finding.dependent_resource # finding.gated_resource
           /\ NodeTypesOf(finding.dependent_resource) # {}
           /\ NodeTypesOf(finding.dependent_resource) \subseteq {"resource", "output"}

\* findings for a gated resource on a cycle with its dependent, and a
\* finding whose dependent is an output
C28_Witness ==
    /\ Analyzed
    /\ HasEdge("A", "B") /\ HasEdge("B", "A")
    /\ "B" \in ReportedDependents("A", "Cond.IsProd")
    /\ "Out.Out1" \in ReportedDependents("A", "Cond.IsProd")


\* the search the loop of lines 283-285 may run next: it enters every node
\* at most once, enters no node an earlier search has entered, and leaves
\* as visited the nodes entered so far
NextSearchEntersNewNodesOnce ==
    \A node_name \in NodeNames \ visited :
        LET r == dfs_cycle_detection(edges, node_name, <<>>, NewSearch(visited), {})
        IN /\ \A i, j \in 1..Len(r.entered) : r.entered[i] = r.entered[j] => i = j
           /\ Range(r.entered) \cap visited = {}
           /\ r.visited = visited \cup Range(r.entered)

\* C29: the DFS cycle detection terminates on every finite graph, with
\* cycles, self-loops and parallel edges: analyze_circular_dependencies
\* returns; and over all start nodes it enters every node at most once: each
\* search enters only nodes no search has entered before, each of them once
C29_CycleDetectionTerminatesEnteringNodesOnce ==
    /\ [](pc = "analyze_circular_dependencies" => NextSearchEntersNewNodesOnce)
    /\ <>CyclesAnalyzed

\* the cycle detection has returned on a graph with the cycle A -> B -> A, a
\* self-loop and a parallel edge
C29_Witness ==
    /\ CyclesAnalyzed
    /\ HasEdge("A", "B") /\ HasEdge("B", "A")
    /\ \E i \in 1..Len(edges) : edges[i].from = edges[i].to
    /\ \E i, j \in 1..Len(edges) : i # j /\ edges[i] = edges[j]
    /\ "circular_dependencies" \in DOMAIN analysis_results


\* the ids of the IR records of that name among the records
IdsNamed(records, name) ==
    {records[i].id : i \in {j \in 1..Len(records) : records[j].name = name}}

\* some single property of the resource D holds the id of resource R in
\* resource_refs and the id of condition C in depend_conditions
GuardedReference(D, C, R) ==
    \E i \in 1..Len(ir.resources) :
        /\ ir.resources[i].name = D
        /\ \E j \in 1..Len(ir.resources[i].properties.units) :
               LET unit == ir.resources[i].properties.units[j]
               IN /\ IdsIn(unit.resource_refs) \cap IdsNamed(ir.resources, R) # {}
                  /\ IdsIn(unit.depend_conditions) \cap IdsNamed(ir.conditions, C) # {}

\* the check _check_cascading_failure_recursive makes at lines 425-427
ConservativeCheck(D, C) ==
    SeqContains(conditionally_gated_resource_properties(edges, C), D)

StricterCheck(D, C, R) ==
    _has_safe_condition_property_edge(edges, nodes, ir, D, C,
                                      _get_node_id_by_name(nodes, C), R)

\* C30: for every node D, condition C and node R of a built graph,
\* _has_safe_condition_property_edge(D, C, R) returns a value, it returns
\* true only if the conservative check accepts D, that is a
\* condition-property edge C -> D exists, and it returns true exactly when,
\* in addition, some single property of D holds R's id in resource_refs and
\* C's id in depend_conditions
C30_StricterCheckRefinesConservativeCheck ==
    GraphBuilt =>
        \A D \in NodeNames, C \in NodeNames, R \in NodeNames :
            /\ ~_has_safe_condition_property_edge_raises(edges, nodes, ir, D, C, R)
            /\ StricterCheck(D, C, R) => ConservativeCheck(D, C)
            /\ StricterCheck(D, C, R) <=> (ConservativeCheck(D, C) /\ GuardedReference(D, C, R))

\* both cases: the stricter check accepts B, whose property Bucket refers to
\* A under an If on IsProd; or it rejects B although the conservative check
\* accepts it, the If being on another property than the reference to A
C30_Witness ==
    /\ GraphBuilt
    /\ ConservativeCheck("B", "Cond.IsProd")
    /\ HasEdge("A", "B")
    /\ \/ /\ template \in ConditionEdgeTemplates
          /\ StricterCheck("B", "Cond.IsProd", "A")
       \/ /\ template \in SplitGuardTemplates
          /\ ~StricterCheck("B", "Cond.IsProd", "A")

====
